---- MODULE Spec2Model ----
(***************************************************************************)
(* Model of the BetterLooksmax plugin runtime: the FrameworkCore           *)
(* orchestrator (src/src/content.js), the LifecycleManager state machine,  *)
(* the PluginRegistry catalog and PluginLoader, the SettingsStore and the  *)
(* HookSystem ownership table.                                             *)
(*                                                                         *)
(* Every async function is a task with a program counter; a task runs      *)
(* without interruption up to its next await, so one action is the code    *)
(* between two awaits.                                                     *)
(***************************************************************************)
EXTENDS Integers, Sequences, FiniteSets, TLC

VARIABLES
  initialized,     \* FrameworkCore.initialized
  initializing,    \* FrameworkCore.initializing
  destroyed,       \* FrameworkCore.destroyed
  opsInFlight,     \* FrameworkCore._operationsInFlight, tokens <<id, direction>>
  pluginAPIs,      \* FrameworkCore.pluginAPIs (its key set)
  debounce,        \* storageDebounceTimer of the storage listener: the pending changes
  state,           \* PluginRegistry.states
  instances,       \* PluginRegistry.instances (its key set)
  errors,          \* PluginRegistry.errors (its key set)
  snapshots,       \* LifecycleManager.stateSnapshots
  hookRegs,        \* HookSystem.pluginHooks: registrations owned by each plugin
  mem,             \* SettingsStore.settings.plugins[id].enabled ("absent" when no entry)
  settingsInit,    \* SettingsStore.initialized
  persistPending,  \* SettingsStore.batchTimeout is armed
  storage,         \* the persisted settings document: plugins[id].enabled
  tasks,           \* the async calls in progress
  initRuns,        \* how many times the body of init() has been entered
  startCalls,      \* how many times instance.start was invoked, per plugin
  echoes,          \* the tokens the latest pass of _handleStorageChange ignored as echoes
  inputs,          \* how many commands and external changes have arrived so far
  pluginIds,       \* PluginLoader.resolveLoadOrder: its argument
  allDeps,         \* PluginRegistry.dependencies: required and optional, per id
  loadOrder,       \* PluginLoader.resolveLoadOrder: what the call produced
  hooks,           \* HookSystem.hooks: the handler entries of each hook, in array order
  pluginHooks,     \* HookSystem.pluginHooks: the {hookName, id} records of each owner
  nextId,          \* the identity the next handler entry gets (its Symbol)
  em,              \* the call of HookSystem.emit in progress, and what its handlers saw
  requestId,       \* IPCManager.requestId of the sender
  pendingRequests, \* IPCManager.pendingRequests of the sender (its key set)
  timers,          \* the timers of the sender's requests that are armed
  promises,        \* the promise each call of request returned
  ipcHandlers,     \* IPCManager.handlers of the peer (its key set)
  channel,         \* where each REQUEST is on its way to the peer and back
  dropped,         \* the requests for which a RESPONSE came that changed nothing
  ipcDestroyed,    \* the contexts whose IPCManager has destroyed set
  bcast,           \* the contexts whose call of broadcast waits for chrome.tabs.query
  sent,            \* the messages the brokers handed to the transport
  cfg,             \* the SettingsStore on its own: schemas, document, watchers, effects
  manifests        \* what the registered manifests declare about other plugins

\* the orchestrator and the lifecycle
coreVars == <<initialized, initializing, destroyed, opsInFlight, pluginAPIs, debounce,
              state, instances, errors, snapshots, hookRegs, mem, settingsInit,
              persistPending, storage, tasks, initRuns, startCalls, echoes, inputs>>

\* the dependency resolution of the loader
loaderVars == <<pluginIds, allDeps, loadOrder>>

\* the components that are specified on their own
\* the event bus
busVars == <<hooks, pluginHooks, nextId, em>>

\* the message broker
\* what destroy is about: the flag, the suspended calls, the messages sent
endVars == <<ipcDestroyed, bcast, sent>>

ipcVars == <<requestId, pendingRequests, timers, promises, ipcHandlers, channel, dropped,
             endVars>>

\* the settings store
cfgVars == <<cfg>>

\* the manifests, which never change once registered
regVars == <<manifests>>

unitVars == <<loaderVars, busVars, ipcVars, cfgVars, regVars>>

vars == <<coreVars, unitVars>>

----------------------------------------------------------------------------
(* Bounds *)

MaxCmd == 2          \* enablePlugin/disablePlugin calls that may be in progress at once
MaxRec == 1          \* _handleStorageChange calls that may be in progress at once
MaxInitRuns == 2     \* init() bodies entered in one behaviour
MaxStartCalls == 2   \* startCalls saturates here
MaxInputs == 4       \* commands and external changes arriving in one behaviour
MaxIds == 3          \* length of the list handed to resolveLoadOrder
MaxRegs == 3         \* handlers registered on the event bus in one behaviour
MaxReqs == 2         \* calls of IPCManager.request in one behaviour
MaxSets == 2         \* calls of SettingsStore.set in one behaviour
MaxSchemas == 2      \* calls of SettingsStore.registerSchema in one behaviour

----------------------------------------------------------------------------
(* The catalog: two plugins, registered in this order; b names a as an     *)
(* optional dependency.                                                    *)

Catalog == <<"a", "b">>
Plugins == {Catalog[k] : k \in 1..Len(Catalog)}
Dependencies == manifests.dependencies
OptionalDependencies == manifests.optionalDependencies
Conflicts == manifests.conflicts

\* no plugin names another
None == [a |-> {}, b |-> {}]

\* the manifests of the plugins that ship: b names a as optional dependency
ShippedManifests ==
  [dependencies |-> None, optionalDependencies |-> [a |-> {}, b |-> {"a"}],
   conflicts |-> None]

\* manifests with one required dependency or one conflict, declared by the
\* plugin that is first or by the one that is second in the registry
DeclaringManifests ==
  {[dependencies |-> d, optionalDependencies |-> None, conflicts |-> c] :
     <<d, c>> \in {<<[a |-> {"b"}, b |-> {}], None>>, <<[a |-> {}, b |-> {"a"}], None>>,
                   <<None, [a |-> {"b"}, b |-> {}]>>, <<None, [a |-> {}, b |-> {"a"}]>>}}

InitReg == manifests = ShippedManifests

States == {"UNLOADED", "LOADING", "LOADED", "STARTING", "ACTIVE",
           "STOPPING", "STOPPED", "ERROR", "DESTROYED"}

NoChange == [old |-> << >>, new |-> << >>]
NoSnapshot == [state |-> "none", hooks |-> 0]

CmdTasks == {<<"cmd", k>> : k \in 1..MaxCmd}
RecTasks == {<<"rec", k>> : k \in 1..MaxRec}
InitTask == <<"init", 1>>
DestroyTask == <<"destroy", 1>>
LcTask == <<"lc", 1>>
TaskIds == CmdTasks \cup RecTasks \cup {InitTask, DestroyTask, LcTask}

NoPre == [state |-> "none", hooks |-> {}]

\* A task: kind of call, position, plugin it works on, loop index, the storage
\* change or the list of ids it iterates, the result of its last lifecycle call, whether
\* the command wrote the enabled flag, the state and registrations the plugin
\* had when startPlugin was entered, the plugins whose stop hook the task
\* has invoked, and the results handed to the calls that found this
\* command's token in flight.
Idle == [kind |-> "idle", pc |-> "idle", p |-> "none", i |-> 0, chg |-> NoChange,
         list |-> << >>, ret |-> "none", wrote |-> FALSE, pre |-> NoPre,
         stopped |-> {}, told |-> {}]

Min(x, y) == IF x < y THEN x ELSE y

----------------------------------------------------------------------------
(* PluginRegistry *)

getState(st, p) == st[p]

getDependents(p) ==
  {q \in Plugins : p \in (Dependencies[q] \cup OptionalDependencies[q])}

checkDependencies(st, p) == \A d \in Dependencies[p] : st[d] = "ACTIVE"

checkConflicts(st, p) == \E c \in Conflicts[p] : st[c] = "ACTIVE"

\* getActivePlugins: the ACTIVE ids in the insertion order of the states map
RECURSIVE ActiveFrom(_, _)
ActiveFrom(st, k) ==
  IF k > Len(Catalog) THEN << >>
  ELSE IF st[Catalog[k]] = "ACTIVE" THEN <<Catalog[k]>> \o ActiveFrom(st, k + 1)
       ELSE ActiveFrom(st, k + 1)

getActivePlugins(st) == ActiveFrom(st, 1)

----------------------------------------------------------------------------
(* SettingsStore *)

isPluginEnabled(m, p) == m[p] = "on"

\* a registerSchema that would turn the plugin on
registerSchemaEnabling(m, p) == [m EXCEPT ![p] = "on"]

\* registerSchema: seeds {enabled: false} for an id without an entry
registerSchema(m, p) == IF m[p] = "absent" THEN [m EXCEPT ![p] = "off"] ELSE m

\* getEnabledPlugins: the enabled ids in the key order of the document
RECURSIVE EnabledFrom(_, _)
EnabledFrom(m, k) ==
  IF k > Len(Catalog) THEN << >>
  ELSE IF m[Catalog[k]] = "on" THEN <<Catalog[k]>> \o EnabledFrom(m, k + 1)
       ELSE EnabledFrom(m, k + 1)

getEnabledPlugins(m) == EnabledFrom(m, 1)

\* _mergeSettings as used by SettingsStore.init: stored entries replace the defaults
mergeSettings(stored) == [p \in Plugins |-> IF stored[p] THEN "on" ELSE "off"]

\* what _persist writes: the in-memory document
persisted(m) == [p \in Plugins |-> m[p] = "on"]

----------------------------------------------------------------------------
(* The ids the loader's dependency resolution is exercised on *)

Ids == {"a", "b", "c"}

\* resolveLoadOrder has not been called
NoOrder == [done |-> FALSE, ok |-> FALSE, order |-> << >>, missing |-> << >>]

\* the loader before any call
InitLoader ==
  /\ pluginIds = << >>
  /\ allDeps = [i \in Ids |-> {}]
  /\ loadOrder = NoOrder

\* the hooks, owners and priorities the event bus is exercised on
HookNames == {"h1", "h2"}
Owners == {"a", "b"}
NoOwner == "none"            \* options.plugin left at null
Priorities == {10, 20}
InitialData == 0             \* the data handed to emit; a handler that returns a
                             \* value returns its own id, which is positive
HandlerOutcomes == {"value", "undef", "throw"}

\* no emission in progress, none made yet
NoEmit ==
  [pc |-> "idle", hookName |-> "h1", parallel |-> FALSE, cancelable |-> FALSE,
   groups |-> << >>, g |-> 0, k |-> 0, data |-> InitialData, ctx |-> InitialData,
   cancelled |-> FALSE, toRemove |-> << >>, running |-> {}, began |-> << >>, res |-> {},
   called |-> FALSE, lastValue |-> 0]

\* the bus after construction
InitBus ==
  /\ hooks = [h \in HookNames |-> << >>]
  /\ pluginHooks = [o \in Owners |-> << >>]
  /\ nextId = 1
  /\ em = NoEmit

\* the actions, the value and the error the message broker is exercised on
Actions == {"ping", "get"}
HandlerValue == "value"
HandlerError == "error"

\* nothing was passed to sendResponse
NoReply == [success |-> FALSE, payload |-> "none", requestId |-> 0]

\* the two contexts a broker runs in: the page that sends the requests, and
\* the service worker that answers them
Contexts == {"sender", "peer"}

\* the contexts where chrome.tabs exists
TabsApi == {"peer"}

\* the brokers after construction
InitIpc ==
  /\ requestId = 0
  /\ pendingRequests = {}
  /\ timers = {}
  /\ promises = [i \in 1..MaxReqs |->
                   [action |-> "none", outcome |-> "none", value |-> "none", calls |-> 0]]
  /\ ipcHandlers = {}
  /\ channel = [i \in 1..MaxReqs |-> [st |-> "none", reply |-> NoReply]]
  /\ dropped = {}
  /\ ipcDestroyed = {}
  /\ bcast = {}
  /\ sent = {}

\* The values the settings store is exercised on, each with its typeof: the
\* numbers 0, 5 and 10, the strings 'oops' (1) and 'ok' (2), and true.
Num(n) == [t |-> "number", v |-> n]
Str(n) == [t |-> "string", v |-> n]
True == [t |-> "boolean", v |-> 1]
False == [t |-> "boolean", v |-> 0]
Undefined == [t |-> "undefined", v |-> 0]
Values == {Num(0), Num(5), Num(10), Str(1), Str(2), True}

\* the keys of the settings of plugin 'p'
Keys == {"x", "y"}

\* a bound, an enum or a validator that a definition does not have
NoBound == -1
NoEnum == {}
NoValidator == {Undefined}

\* a definition of a schema: validator is the set of values the custom
\* validator returns true for; NoDef stands for a key the schema lacks
Def(type, min, max, enum, validator, default) ==
  [type |-> type, min |-> min, max |-> max, enum |-> enum, validator |-> validator,
   default |-> default]
NoDef == Def("absent", NoBound, NoBound, NoEnum, NoValidator, Undefined)

\* the schemas registered: the first is {x: {type: 'number', default: 5}}
Schemas ==
  { [x |-> Def("number", NoBound, NoBound, NoEnum, NoValidator, Num(5)), y |-> NoDef],
    [x |-> Def("number", 5, NoBound, NoEnum, NoValidator, Num(5)),
     y |-> Def("string", NoBound, NoBound, {Str(2)}, NoValidator, Str(2))],
    [x |-> Def("number", NoBound, 5, NoEnum, NoValidator, Undefined),
     y |-> Def("none", NoBound, NoBound, NoEnum, {Num(10), Str(2)}, Num(10))],
    [x |-> Def("boolean", NoBound, NoBound, NoEnum, NoValidator, True), y |-> NoDef] }

NoSchema == [k \in Keys |-> NoDef]
NoEntry == [present |-> FALSE, enabled |-> FALSE, settings |-> [k \in Keys |-> Undefined]]

\* the watch keys callbacks are registered on
WatchKeys == {"p", "p.x"}

\* the settings store after construction
InitCfg ==
  cfg = [hasSchema |-> FALSE, schema |-> NoSchema, entry |-> NoEntry, watchers |-> {},
         batchTimeout |-> FALSE, armed |-> 0, writes |-> 0, stored |-> NoEntry,
         notified |-> 0, emitted |-> 0, sets |-> 0, regs |-> 0,
         last |-> "none"]

----------------------------------------------------------------------------
\* the orchestrator, the catalog and the stores after construction
InitCore ==
  /\ initialized = FALSE
  /\ initializing = FALSE
  /\ destroyed = FALSE
  /\ opsInFlight = {}
  /\ pluginAPIs = {}
  /\ debounce = NoChange
  /\ state = [p \in Plugins |-> "UNLOADED"]
  /\ instances = {}
  /\ errors = {}
  /\ snapshots = [p \in Plugins |-> NoSnapshot]
  /\ hookRegs = [p \in Plugins |-> {}]
  /\ mem = [p \in Plugins |-> "absent"]
  /\ settingsInit = FALSE
  /\ persistPending = FALSE
  /\ storage \in [Plugins -> BOOLEAN]
  /\ tasks = [t \in TaskIds |-> Idle]
  /\ initRuns = 0
  /\ startCalls = [p \in Plugins |-> 0]
  /\ echoes = {}
  /\ inputs = 0

Init == InitCore /\ InitLoader /\ InitBus /\ InitIpc /\ InitCfg /\ InitReg

\* the framework constructed over manifests that declare a dependency or a
\* conflict
InitDeclaring ==
  /\ InitCore /\ InitLoader /\ InitBus /\ InitIpc /\ InitCfg
  /\ manifests \in DeclaringManifests

\* the same with nothing stored, for the components specified on their own
InitUnit == Init /\ storage = [p \in Plugins |-> FALSE]

----------------------------------------------------------------------------
(* LifecycleManager.  A lifecycle call made by task t leaves t at pc "ret"  *)
(* with ret in {"true", "false", "throw"} once it has settled.             *)

Settle(t, r, v) ==
  tasks' = [tasks EXCEPT ![t] = [r EXCEPT !.pc = "ret", !.ret = v, !.pre = NoPre]]

Goto(t, r, pc) == tasks' = [tasks EXCEPT ![t] = [r EXCEPT !.pc = pc, !.ret = "none"]]

\* startPlugin up to its first await: the precondition checks, the snapshot
\* and the transition to STARTING.  st and hk are the catalog states and
\* the registrations as the caller's step has left them, inst the instances.
startPluginEntry(t, r, p, st, hk, inst) ==
  IF getState(st, p) = "ACTIVE"
  THEN /\ Settle(t, r, "true")
       /\ state' = st
       /\ UNCHANGED snapshots
  ELSE IF \/ getState(st, p) \notin {"LOADED", "STOPPED"}
          \/ ~checkDependencies(st, p)
          \/ checkConflicts(st, p)
          \/ p \notin inst
  THEN /\ Settle(t, r, "throw")
       /\ state' = st
       /\ UNCHANGED snapshots
  ELSE /\ snapshots' = [snapshots EXCEPT
                          ![p] = [state |-> st[p], hooks |-> Cardinality(hk[p])]]
       /\ state' = [st EXCEPT ![p] = "STARTING"]
       /\ Goto(t, [r EXCEPT !.pre = [state |-> st[p], hooks |-> hk[p]]],
               "lc_before_enable")

\* FrameworkCore._startPluginRuntime up to its first await
startPluginRuntime(t, r, p, st, inst) ==
  /\ pluginAPIs' = pluginAPIs \cup {p}
  /\ IF getState(st, p) = "LOADED"
     THEN \* initPlugin
          IF p \notin inst
          THEN Settle(t, r, "throw") /\ state' = st /\ UNCHANGED snapshots
          ELSE Goto(t, r, "lc_init") /\ state' = st /\ UNCHANGED snapshots
     ELSE startPluginEntry(t, r, p, st, hookRegs, inst)

\* stopPlugin up to its first await
stopPluginEntry(t, r, p) ==
  IF getState(state, p) = "STOPPED"
  THEN Settle(t, r, "true") /\ UNCHANGED state
  ELSE IF \/ getState(state, p) # "ACTIVE"
          \/ \E d \in getDependents(p) : getState(state, d) = "ACTIVE"
          \/ p \notin instances
  THEN Settle(t, r, "throw") /\ UNCHANGED state
  ELSE /\ state' = [state EXCEPT ![p] = "STOPPING"]
       /\ Goto(t, r, "lc_before_disable")

\* FrameworkCore._stopPluginRuntime up to its first await
stopPluginRuntime(t, r, p) ==
  /\ UNCHANGED <<snapshots, pluginAPIs>>
  /\ IF p \notin pluginAPIs
     THEN Settle(t, r, "true") /\ UNCHANGED state
     ELSE stopPluginEntry(t, r, p)

\* initPlugin after instance.init settled, then the start of startPlugin.
\* o is the outcome of the init hook; reg says whether the hook registered a
\* handler of its own through api.hooks.register.
LcInitDone(t, o, reg) ==
  /\ tasks[t].pc = "lc_init"
  /\ LET p == tasks[t].p
         hk == IF o = "ok" /\ reg THEN [hookRegs EXCEPT ![p] = @ \cup {"api"}]
               ELSE hookRegs
         st == IF o = "ok" THEN state ELSE [state EXCEPT ![p] = "ERROR"]
     IN /\ hookRegs' = hk
        /\ errors' = IF o = "ok" THEN errors ELSE errors \cup {p}
        /\ startPluginEntry(t, tasks[t], p, st, hk, instances)
  /\ UNCHANGED <<initialized, initializing, destroyed, opsInFlight, pluginAPIs,
                 debounce, instances, mem, settingsInit, persistPending, storage,
                 initRuns, startCalls, echoes, inputs, unitVars>>

\* startPlugin after 'plugin:before-enable': the declared hooks and the schema
\* are registered and instance.start is invoked.
LcBeforeEnableDone(t) ==
  /\ tasks[t].pc = "lc_before_enable"
  /\ LET p == tasks[t].p
     IN /\ hookRegs' = [hookRegs EXCEPT ![p] = @ \cup {"declared"}]
        /\ mem' = registerSchema(mem, p)
        /\ startCalls' = [startCalls EXCEPT ![p] = Min(@ + 1, MaxStartCalls)]
        /\ Goto(t, tasks[t], "lc_start")
  /\ UNCHANGED <<initialized, initializing, destroyed, opsInFlight, pluginAPIs,
                 debounce, state, instances, errors, snapshots, settingsInit,
                 persistPending, storage, initRuns, echoes, inputs, unitVars>>

\* _rollback: remove the plugin's registrations, restore the snapshot's state
rollback(p) ==
  IF snapshots[p] = NoSnapshot
  THEN UNCHANGED <<hookRegs, state, snapshots>>
  ELSE /\ hookRegs' = [hookRegs EXCEPT ![p] = {}]
       /\ state' = [state EXCEPT ![p] = snapshots[p].state]
       /\ snapshots' = [snapshots EXCEPT ![p] = NoSnapshot]

\* startPlugin after instance.start settled
LcStartDone(t, o) ==
  /\ tasks[t].pc = "lc_start"
  /\ LET p == tasks[t].p
     IN IF o = "ok"
        THEN /\ state' = [state EXCEPT ![p] = "ACTIVE"]
             /\ errors' = errors \ {p}
             /\ Settle(t, tasks[t], "true")
             /\ UNCHANGED <<hookRegs, snapshots>>
        ELSE /\ rollback(p)
             /\ Goto(t, tasks[t], "lc_rolled_back")
             /\ UNCHANGED errors
  /\ UNCHANGED <<initialized, initializing, destroyed, opsInFlight, pluginAPIs,
                 debounce, instances, mem, settingsInit, persistPending, storage,
                 initRuns, startCalls, echoes, inputs, unitVars>>

\* PluginRegistry.setError: records the error and forces the state to ERROR
setError(p) ==
  /\ errors' = errors \cup {p}
  /\ state' = [state EXCEPT ![p] = "ERROR"]

\* the catch block of startPlugin after _rollback: setError, report failure
LcStartFailed(t) ==
  /\ tasks[t].pc = "lc_rolled_back"
  /\ setError(tasks[t].p)
  /\ Settle(t, tasks[t], "false")
  /\ UNCHANGED <<initialized, initializing, destroyed, opsInFlight, pluginAPIs,
                 debounce, instances, snapshots, hookRegs, mem, settingsInit,
                 persistPending, storage, initRuns, startCalls, echoes, inputs, unitVars>>

\* stopPlugin after 'plugin:before-disable': instance.stop is invoked
LcBeforeDisableDone(t) ==
  /\ tasks[t].pc = "lc_before_disable"
  /\ Goto(t, [tasks[t] EXCEPT !.stopped = @ \cup {tasks[t].p}], "lc_stop")
  /\ UNCHANGED <<initialized, initializing, destroyed, opsInFlight, pluginAPIs,
                 debounce, state, instances, errors, snapshots, hookRegs, mem,
                 settingsInit, persistPending, storage, initRuns, startCalls, echoes, inputs, unitVars>>

\* stopPlugin after instance.stop settled
LcStopDone(t, o) ==
  /\ tasks[t].pc = "lc_stop"
  /\ LET p == tasks[t].p
     IN IF o = "ok"
        THEN /\ hookRegs' = [hookRegs EXCEPT ![p] = {}]
             /\ state' = [state EXCEPT ![p] = "STOPPED"]
             /\ Settle(t, tasks[t], "true")
             /\ UNCHANGED errors
        ELSE /\ setError(p)
             /\ Settle(t, tasks[t], "false")
             /\ UNCHANGED hookRegs
  /\ UNCHANGED <<initialized, initializing, destroyed, opsInFlight, pluginAPIs,
                 debounce, instances, snapshots, mem, settingsInit,
                 persistPending, storage, initRuns, startCalls, echoes, inputs, unitVars>>

\* the caller of the LifecycleManager and the loader makes one call at a time
LcFree == tasks[LcTask].pc \in {"idle", "done"}

\* the frame of the calls made on the LifecycleManager and the loader
LcFrame ==
  UNCHANGED <<initialized, initializing, destroyed, opsInFlight, pluginAPIs, debounce,
              hookRegs, mem, settingsInit, persistPending, storage, initRuns,
              startCalls, echoes, inputs, unitVars>>

\* startPlugin(pluginId, api) called on the LifecycleManager
StartPluginCall(p) ==
  /\ LcFree
  /\ startPluginEntry(LcTask, [Idle EXCEPT !.kind = "startPlugin", !.p = p], p,
                      state, hookRegs, instances)
  /\ UNCHANGED <<instances, errors>>
  /\ LcFrame

\* stopPlugin(pluginId, api) called on the LifecycleManager
StopPluginCall(p) ==
  /\ LcFree
  /\ stopPluginEntry(LcTask, [Idle EXCEPT !.kind = "stopPlugin", !.p = p], p)
  /\ UNCHANGED <<instances, errors, snapshots>>
  /\ LcFrame

\* handleError(pluginId, error, api) up to the await of 'plugin:error'
HandleErrorCall(p) ==
  /\ LcFree
  /\ setError(p)
  /\ Goto(LcTask, [Idle EXCEPT !.kind = "handleError", !.p = p], "he_emit")
  /\ UNCHANGED <<instances, snapshots>>
  /\ LcFrame

\* handleError after 'plugin:error': the plugin is stopped when its state is
\* ACTIVE, and what stopPlugin throws is caught
HandleErrorEmitted(t) ==
  /\ tasks[t].pc = "he_emit"
  /\ IF getState(state, tasks[t].p) = "ACTIVE"
     THEN stopPluginEntry(t, tasks[t], tasks[t].p)
     ELSE /\ tasks' = [tasks EXCEPT ![t].pc = "done"]
          /\ UNCHANGED state
  /\ UNCHANGED <<instances, errors, snapshots>>
  /\ LcFrame

\* startPlugin, stopPlugin or the stopPlugin of handleError has settled
LcReturn(t) ==
  /\ tasks[t].kind \in {"startPlugin", "stopPlugin", "handleError"}
  /\ tasks[t].pc = "ret"
  /\ tasks' = [tasks EXCEPT ![t].pc = "done"]
  /\ UNCHANGED <<state, instances, errors, snapshots>>
  /\ LcFrame

\* PluginLoader.loadPlugin(pluginId) up to the import of the module
LoadPluginCall(p) ==
  /\ LcFree
  /\ LET r == [Idle EXCEPT !.kind = "loadPlugin", !.p = p]
     IN IF p \in instances
        THEN /\ tasks' = [tasks EXCEPT ![LcTask] = [r EXCEPT !.pc = "done", !.ret = "true"]]
             /\ UNCHANGED <<state, errors>>
        ELSE IF ~checkDependencies(state, p) \/ checkConflicts(state, p)
        THEN /\ setError(p)
             /\ tasks' = [tasks EXCEPT ![LcTask] = [r EXCEPT !.pc = "done", !.ret = "throw"]]
        ELSE /\ state' = [state EXCEPT ![p] = "LOADING"]
             /\ Goto(LcTask, r, "ld_import")
             /\ UNCHANGED errors
  /\ UNCHANGED <<instances, snapshots>>
  /\ LcFrame

\* loadPlugin after the import: the instance is stored
LoadImported(t) ==
  /\ tasks[t].pc = "ld_import"
  /\ instances' = instances \cup {tasks[t].p}
  /\ state' = [state EXCEPT ![tasks[t].p] = "LOADED"]
  /\ tasks' = [tasks EXCEPT ![t] = [@ EXCEPT !.pc = "done", !.ret = "true"]]
  /\ UNCHANGED <<errors, snapshots>>
  /\ LcFrame

\* destroyPlugin from the lookup of the instance to its next await
destroyPluginBody(t, r, p) ==
  IF p \notin instances
  THEN tasks' = [tasks EXCEPT ![t] = [r EXCEPT !.pc = "done", !.ret = "true"]]
  ELSE Goto(t, r, "lc_destroy")

\* destroyPlugin(pluginId, api) up to its first await: an ACTIVE plugin is
\* stopped first
DestroyPluginCall(p) ==
  /\ LcFree
  /\ LET r == [Idle EXCEPT !.kind = "destroyPlugin", !.p = p]
     IN IF getState(state, p) = "ACTIVE"
        THEN stopPluginEntry(LcTask, r, p)
        ELSE destroyPluginBody(LcTask, r, p) /\ UNCHANGED state
  /\ UNCHANGED <<initialized, initializing, destroyed, opsInFlight, pluginAPIs,
                 debounce, instances, errors, snapshots, hookRegs, mem, settingsInit,
                 persistPending, storage, initRuns, startCalls, echoes, inputs, unitVars>>

\* destroyPlugin after stopPlugin settled: what stopPlugin threw leaves
\* destroyPlugin, what it returned is not looked at
DestroyPluginAfterStop(t) ==
  /\ tasks[t].kind = "destroyPlugin"
  /\ tasks[t].pc = "ret"
  /\ IF tasks[t].ret = "throw"
     THEN tasks' = [tasks EXCEPT ![t].pc = "done"]
     ELSE destroyPluginBody(t, tasks[t], tasks[t].p)
  /\ UNCHANGED <<initialized, initializing, destroyed, opsInFlight, pluginAPIs,
                 debounce, state, instances, errors, snapshots, hookRegs, mem,
                 settingsInit, persistPending, storage, initRuns, startCalls, echoes,
                 inputs, unitVars>>

\* destroyPlugin after instance.destroy settled
LcDestroyDone(t, o) ==
  /\ tasks[t].pc = "lc_destroy"
  /\ LET p == tasks[t].p
     IN IF o = "ok"
        THEN /\ state' = [state EXCEPT ![p] = "DESTROYED"]
             /\ tasks' = [tasks EXCEPT ![t] = [@ EXCEPT !.pc = "done", !.ret = "true"]]
             /\ UNCHANGED errors
        ELSE /\ setError(p)
             /\ tasks' = [tasks EXCEPT ![t] = [@ EXCEPT !.pc = "done", !.ret = "false"]]
  /\ UNCHANGED <<initialized, initializing, destroyed, opsInFlight, pluginAPIs,
                 debounce, instances, snapshots, hookRegs, mem, settingsInit,
                 persistPending, storage, initRuns, startCalls, echoes, inputs, unitVars>>

----------------------------------------------------------------------------
(* FrameworkCore: the command API *)

\* the free command slot with the lowest number, 0 when all are in use
FreeCmd ==
  IF \E k \in 1..MaxCmd : tasks[<<"cmd", k>>].kind = "idle"
  THEN CHOOSE k \in 1..MaxCmd :
         /\ tasks[<<"cmd", k>>].kind = "idle"
         /\ \A j \in 1..(k - 1) : tasks[<<"cmd", j>>].kind # "idle"
  ELSE 0

\* the call returns v; the finally block removes the operation token
Finish(t, r, v) ==
  /\ tasks' = [tasks EXCEPT ![t] = [r EXCEPT !.pc = "done", !.ret = v]]
  /\ opsInFlight' = opsInFlight \ {<<r.p, r.kind>>}

\* an early return of enablePlugin/disablePlugin, before the token is taken
Return(t, r, v) ==
  /\ tasks' = [tasks EXCEPT ![t] = [r EXCEPT !.pc = "done", !.ret = v]]
  /\ UNCHANGED <<opsInFlight, mem, persistPending, state, snapshots, pluginAPIs>>

\* the early return on a token in flight: the call returns v at once, while
\* the commands that hold the token go on
Joined(t, r, v) ==
  /\ tasks' = [u \in TaskIds |->
                 IF u = t THEN [r EXCEPT !.pc = "done", !.ret = v]
                 ELSE IF /\ tasks[u].kind = r.kind /\ tasks[u].p = r.p
                         /\ tasks[u].pc \notin {"idle", "done"}
                      THEN [tasks[u] EXCEPT !.told = @ \cup {v}]
                      ELSE tasks[u]]
  /\ UNCHANGED <<opsInFlight, mem, persistPending, state, snapshots, pluginAPIs>>

\* an enablePlugin without a single-flight check
enableInFlightNever(p) == FALSE

\* the single-flight check of enablePlugin
enableInFlight(p) == <<p, "enable">> \in opsInFlight

\* the single-flight check of disablePlugin
disableInFlight(p) == <<p, "disable">> \in opsInFlight

\* enablePlugin(p) up to its first await
EnableCall(p) ==
  /\ FreeCmd # 0
  /\ inputs < MaxInputs
  /\ inputs' = inputs + 1
  /\ LET t == <<"cmd", FreeCmd>>
         r == [Idle EXCEPT !.kind = "enable", !.p = p]
     IN IF destroyed THEN Return(t, r, "false")
        ELSE IF enableInFlight(p) THEN Joined(t, r, "true")
        ELSE IF isPluginEnabled(mem, p) /\ getState(state, p) = "ACTIVE"
        THEN Return(t, r, "true")
        ELSE IF getState(state, p) \in {"STARTING", "LOADING"}
        THEN Return(t, r, "true")
        ELSE /\ opsInFlight' = opsInFlight \cup {<<p, "enable">>}
             /\ IF ~isPluginEnabled(mem, p)
                THEN \* settings.enable: the document changes, a persist is queued
                     /\ mem' = [mem EXCEPT ![p] = "on"]
                     /\ persistPending' = TRUE
                     /\ Goto(t, [r EXCEPT !.wrote = TRUE], "en_write")
                     /\ UNCHANGED <<state, snapshots, pluginAPIs>>
                ELSE /\ startPluginRuntime(t, r, p, state, instances)
                     /\ UNCHANGED <<mem, persistPending>>
  /\ UNCHANGED <<initialized, initializing, destroyed, debounce, instances, errors,
                 hookRegs, settingsInit, storage, initRuns, startCalls, echoes, unitVars>>

\* enablePlugin after settings.enable settled
EnableWritten(t) ==
  /\ tasks[t].kind = "enable" /\ tasks[t].pc = "en_write"
  /\ IF destroyed
     THEN Finish(t, tasks[t], "false") /\ UNCHANGED <<state, snapshots, pluginAPIs>>
     ELSE /\ startPluginRuntime(t, tasks[t], tasks[t].p, state, instances)
          /\ UNCHANGED opsInFlight
  /\ UNCHANGED <<initialized, initializing, destroyed, debounce, instances, errors,
                 hookRegs, mem, settingsInit, persistPending, storage, initRuns,
                 startCalls, echoes, inputs, unitVars>>

\* enablePlugin after _startPluginRuntime settled: return its result, or in
\* the catch block write enabled=false back unless destroyed
EnableAfterStart(t) ==
  /\ tasks[t].kind = "enable" /\ tasks[t].pc = "ret"
  /\ IF tasks[t].ret = "throw" /\ ~destroyed
     THEN /\ mem' = [mem EXCEPT ![tasks[t].p] = "off"]
          /\ persistPending' = TRUE
          /\ Goto(t, tasks[t], "en_revert")
          /\ UNCHANGED opsInFlight
     ELSE /\ Finish(t, tasks[t], IF tasks[t].ret = "true" THEN "true" ELSE "false")
          /\ UNCHANGED <<mem, persistPending>>
  /\ UNCHANGED <<initialized, initializing, destroyed, pluginAPIs, debounce, state,
                 instances, errors, snapshots, hookRegs, settingsInit, storage,
                 initRuns, startCalls, echoes, inputs, unitVars>>

\* enablePlugin after the settings.disable of its catch block settled
EnableReverted(t) ==
  /\ tasks[t].kind = "enable" /\ tasks[t].pc = "en_revert"
  /\ Finish(t, tasks[t], "false")
  /\ UNCHANGED <<initialized, initializing, destroyed, pluginAPIs, debounce, state,
                 instances, errors, snapshots, hookRegs, mem, settingsInit,
                 persistPending, storage, initRuns, startCalls, echoes, inputs, unitVars>>

\* disablePlugin(p) up to its first await
DisableCall(p) ==
  /\ FreeCmd # 0
  /\ inputs < MaxInputs
  /\ inputs' = inputs + 1
  /\ LET t == <<"cmd", FreeCmd>>
         r == [Idle EXCEPT !.kind = "disable", !.p = p]
     IN IF destroyed THEN Return(t, r, "false")
        ELSE IF disableInFlight(p) THEN Joined(t, r, "true")
        ELSE IF ~isPluginEnabled(mem, p) /\ getState(state, p) # "ACTIVE"
        THEN Return(t, r, "true")
        ELSE IF getState(state, p) = "STOPPING" THEN Return(t, r, "true")
        ELSE /\ opsInFlight' = opsInFlight \cup {<<p, "disable">>}
             /\ IF isPluginEnabled(mem, p)
                THEN /\ mem' = [mem EXCEPT ![p] = "off"]
                     /\ persistPending' = TRUE
                     /\ Goto(t, [r EXCEPT !.wrote = TRUE], "dis_write")
                     /\ UNCHANGED <<state, snapshots, pluginAPIs>>
                ELSE /\ stopPluginRuntime(t, r, p)
                     /\ UNCHANGED <<mem, persistPending>>
  /\ UNCHANGED <<initialized, initializing, destroyed, debounce, instances, errors,
                 hookRegs, settingsInit, storage, initRuns, startCalls, echoes, unitVars>>

\* disablePlugin after settings.disable settled
DisableWritten(t) ==
  /\ tasks[t].kind = "disable" /\ tasks[t].pc = "dis_write"
  /\ IF destroyed
     THEN Finish(t, tasks[t], "false") /\ UNCHANGED <<state, snapshots, pluginAPIs>>
     ELSE stopPluginRuntime(t, tasks[t], tasks[t].p) /\ UNCHANGED opsInFlight
  /\ UNCHANGED <<initialized, initializing, destroyed, debounce, instances, errors,
                 hookRegs, mem, settingsInit, persistPending, storage, initRuns,
                 startCalls, echoes, inputs, unitVars>>

\* disablePlugin after _stopPluginRuntime settled
DisableAfterStop(t) ==
  /\ tasks[t].kind = "disable" /\ tasks[t].pc = "ret"
  /\ Finish(t, tasks[t], IF tasks[t].ret = "true" THEN "true" ELSE "false")
  /\ UNCHANGED <<initialized, initializing, destroyed, pluginAPIs, debounce, state,
                 instances, errors, snapshots, hookRegs, mem, settingsInit,
                 persistPending, storage, initRuns, startCalls, echoes, inputs, unitVars>>

\* the caller of a command has received its result
Release(t) ==
  /\ tasks[t].pc = "done"
  /\ tasks' = [tasks EXCEPT ![t] = Idle]
  /\ UNCHANGED <<initialized, initializing, destroyed, opsInFlight, pluginAPIs,
                 debounce, state, instances, errors, snapshots, hookRegs, mem,
                 settingsInit, persistPending, storage, initRuns, startCalls, echoes, inputs, unitVars>>

----------------------------------------------------------------------------
(* The persistent store and its change notifications *)

\* storageChangeHandler: arm the debounce timer with the latest changes, or
\* drop the timer while destroyed, initializing or not initialized
storageChangeHandler(chg) ==
  debounce' = IF destroyed \/ initializing \/ ~initialized THEN NoChange ELSE chg

\* another context toggles the enabled flag of p in the persisted document
ExternalWrite(p) ==
  /\ inputs < MaxInputs
  /\ inputs' = inputs + 1
  /\ storage' = [storage EXCEPT ![p] = ~@]
  /\ storageChangeHandler([old |-> storage, new |-> storage'])
  /\ UNCHANGED <<initialized, initializing, destroyed, opsInFlight, pluginAPIs,
                 state, instances, errors, snapshots, hookRegs, mem, settingsInit,
                 persistPending, tasks, initRuns, startCalls, echoes, unitVars>>

\* the batch timeout of _queuePersist fires: _persist writes the in-memory
\* document, and the store reports the change to this context too
PersistFire ==
  /\ persistPending
  /\ persistPending' = FALSE
  /\ storage' = persisted(mem)
  /\ IF storage' # storage
     THEN storageChangeHandler([old |-> storage, new |-> storage'])
     ELSE UNCHANGED debounce
  /\ UNCHANGED <<initialized, initializing, destroyed, opsInFlight, pluginAPIs,
                 state, instances, errors, snapshots, hookRegs, mem, settingsInit,
                 tasks, initRuns, startCalls, echoes, inputs, unitVars>>

\* the keys a plugin writes through its settings API: the plugins declare a
\* setting named 'enabled' among their own, as grey-user-filter does
OwnKeys == {"enabled", "hideThreads"}

\* SettingsStore.set on the document of the flags: the key 'enabled' is the
\* reserved flag, any other key leaves it, a missing entry is created
setKey(m, p, key, value) ==
  IF key = "enabled" THEN [m EXCEPT ![p] = IF value THEN "on" ELSE "off"]
  ELSE IF m[p] = "absent" THEN [m EXCEPT ![p] = "off"] ELSE m

\* api.settings.set(key, value) called by plugin p: PluginAPI._settingsSet
\* hands it to SettingsStore.set, which validates, writes and queues the persist
SettingsSet(p, key, value) ==
  /\ p \in pluginAPIs
  /\ inputs < MaxInputs
  /\ inputs' = inputs + 1
  /\ mem' = setKey(mem, p, key, value)
  /\ persistPending' = TRUE
  /\ UNCHANGED <<initialized, initializing, destroyed, opsInFlight, pluginAPIs,
                 debounce, state, instances, errors, snapshots, hookRegs,
                 settingsInit, storage, tasks, initRuns, startCalls, echoes, unitVars>>

----------------------------------------------------------------------------
(* FrameworkCore: reconciliation *)

FreeRec ==
  IF \E k \in 1..MaxRec : tasks[<<"rec", k>>].kind = "idle"
  THEN CHOOSE k \in 1..MaxRec :
         /\ tasks[<<"rec", k>>].kind = "idle"
         /\ \A j \in 1..(k - 1) : tasks[<<"rec", j>>].kind # "idle"
  ELSE 0

direction(enabled) == IF enabled THEN "enable" ELSE "disable"

\* a _handleStorageChange without an echo test
isEchoNever(p, newEnabled) == FALSE

\* the echo test of _handleStorageChange: the token of this change is in flight
isEcho(p, newEnabled) == <<p, direction(newEnabled)>> \in opsInFlight

\* the loop of _handleStorageChange from entry k on: the first entry whose
\* enabled flag changed and is not an echo, 0 when there is none
RECURSIVE nextTransition(_, _)
nextTransition(chg, k) ==
  IF k > Len(Catalog) THEN 0
  ELSE IF /\ chg.old[Catalog[k]] # chg.new[Catalog[k]]
          /\ ~isEcho(Catalog[k], chg.new[Catalog[k]])
       THEN k
       ELSE nextTransition(chg, k + 1)

\* _reconcileEnable up to its first await
reconcileEnable(t, r, p) ==
  IF destroyed
  THEN Settle(t, r, "false") /\ UNCHANGED <<state, snapshots, pluginAPIs>>
  ELSE IF getState(state, p) \in {"ACTIVE", "STARTING", "LOADING"}
  THEN Settle(t, r, "true") /\ UNCHANGED <<state, snapshots, pluginAPIs>>
  ELSE startPluginRuntime(t, r, p, state, instances)

\* _reconcileDisable up to its first await
reconcileDisable(t, r, p) ==
  IF destroyed
  THEN Settle(t, r, "false") /\ UNCHANGED <<state, snapshots, pluginAPIs>>
  ELSE IF getState(state, p) \in {"STOPPED", "UNLOADED", "STOPPING"}
  THEN Settle(t, r, "true") /\ UNCHANGED <<state, snapshots, pluginAPIs>>
  ELSE stopPluginRuntime(t, r, p)

\* the changed entries from k up to (not including) j, or up to the end when
\* j = 0, that the loop skipped as echoes
ignoredEchoes(chg, k, j) ==
  {<<Catalog[n], direction(chg.new[Catalog[n]])>> :
     n \in {m \in k..(IF j = 0 THEN Len(Catalog) ELSE j - 1) :
               /\ chg.old[Catalog[m]] # chg.new[Catalog[m]]
               /\ isEcho(Catalog[m], chg.new[Catalog[m]])}}

\* _handleStorageChange from entry k on, up to the next await
handleStorageChange(t, r, k) ==
  LET j == nextTransition(r.chg, k)
  IN /\ echoes' = ignoredEchoes(r.chg, k, j)
     /\ IF j = 0
        THEN /\ tasks' = [tasks EXCEPT ![t] = Idle]
             /\ UNCHANGED <<state, snapshots, pluginAPIs>>
        ELSE LET p == Catalog[j]
                 r2 == [r EXCEPT !.i = j, !.p = p]
             IN IF r.chg.new[p] THEN reconcileEnable(t, r2, p)
                ELSE reconcileDisable(t, r2, p)

\* the debounce timer fires
DebounceFire ==
  /\ debounce # NoChange
  /\ debounce' = NoChange
  /\ IF destroyed \/ initializing \/ ~initialized
     THEN UNCHANGED <<tasks, state, snapshots, pluginAPIs, echoes>>
     ELSE /\ FreeRec # 0
          /\ handleStorageChange(<<"rec", FreeRec>>,
                                 [Idle EXCEPT !.kind = "reconcile", !.chg = debounce], 1)
  /\ UNCHANGED <<initialized, initializing, destroyed, opsInFlight, instances,
                 errors, hookRegs, mem, settingsInit, persistPending, storage,
                 initRuns, startCalls, inputs, unitVars>>

\* _handleStorageChange after a reconcile call settled: on to the next entry
ReconcileNext(t) ==
  /\ tasks[t].kind = "reconcile" /\ tasks[t].pc = "ret"
  /\ handleStorageChange(t, tasks[t], tasks[t].i + 1)
  /\ UNCHANGED <<initialized, initializing, destroyed, opsInFlight, debounce,
                 instances, errors, hookRegs, mem, settingsInit, persistPending,
                 storage, initRuns, startCalls, inputs, unitVars>>

----------------------------------------------------------------------------
(* PluginLoader *)

\* loadPlugins: every discovered plugin in load order; loadPlugin checks the
\* preconditions, then moves the plugin to LOADED, or to ERROR when they fail
RECURSIVE loadPlugins(_, _)
loadPlugins(st, k) ==
  IF k > Len(Catalog) THEN st
  ELSE LET p == Catalog[k]
       IN IF checkDependencies(st, p) /\ ~checkConflicts(st, p)
          THEN loadPlugins([st EXCEPT ![p] = "LOADED"], k + 1)
          ELSE loadPlugins([st EXCEPT ![p] = "ERROR"], k + 1)

\* step 5 of init: registerSchema for every plugin that has an instance
RECURSIVE registerSchemas(_, _, _)
registerSchemas(m, inst, k) ==
  IF k > Len(Catalog) THEN m
  ELSE registerSchemas(IF Catalog[k] \in inst THEN registerSchema(m, Catalog[k]) ELSE m,
                       inst, k + 1)

----------------------------------------------------------------------------
(* FrameworkCore: init *)

\* the guards of init(): a call is a no-op while initialized or initializing
initGuard == ~initialized /\ ~initializing

\* init() is called and passes its guards; it suspends in settings.init()
InitCall ==
  /\ initGuard
  /\ tasks[InitTask].kind = "idle"
  /\ initRuns < MaxInitRuns
  /\ initializing' = TRUE
  /\ initRuns' = initRuns + 1
  /\ tasks' = [tasks EXCEPT ![InitTask] = [Idle EXCEPT !.kind = "init", !.pc = "init_settings"]]
  /\ UNCHANGED <<initialized, destroyed, opsInFlight, pluginAPIs, debounce, state,
                 instances, errors, snapshots, hookRegs, mem, settingsInit,
                 persistPending, storage, startCalls, echoes, inputs, unitVars>>

\* settings.init() has read the stored document; the IPC handlers, the storage
\* listener and the core hooks are installed; discovery and loading begin
InitSettingsLoaded ==
  /\ tasks[InitTask].pc = "init_settings"
  /\ mem' = IF settingsInit THEN mem ELSE mergeSettings(storage)
  /\ settingsInit' = TRUE
  /\ Goto(InitTask, tasks[InitTask], "init_load")
  /\ UNCHANGED <<initialized, initializing, destroyed, opsInFlight, pluginAPIs,
                 debounce, state, instances, errors, snapshots, hookRegs,
                 persistPending, storage, initRuns, startCalls, echoes, inputs, unitVars>>

\* the loop of init() over the enabled plugins from entry k on
initStartFrom(r, k, st, inst) ==
  IF k > Len(r.list)
  THEN /\ Goto(InitTask, r, "init_ready")
       /\ state' = st
       /\ UNCHANGED <<snapshots, pluginAPIs>>
  ELSE startPluginRuntime(InitTask, [r EXCEPT !.i = k, !.p = r.list[k]],
                          r.list[k], st, inst)

\* discovery and loading are done: schemas are registered, the enabled set is
\* read from the settings and the first enabled plugin is started
InitLoaded ==
  /\ tasks[InitTask].pc = "init_load"
  /\ LET st == loadPlugins(state, 1)
         inst == instances \cup {p \in Plugins : st[p] = "LOADED"}
         m == registerSchemas(mem, inst, 1)
     IN /\ instances' = inst
        /\ errors' = errors \cup {p \in Plugins : st[p] = "ERROR"}
        /\ mem' = m
        /\ initStartFrom([tasks[InitTask] EXCEPT !.list = getEnabledPlugins(m)],
                         1, st, inst)
  /\ UNCHANGED <<initialized, initializing, destroyed, opsInFlight, debounce,
                 hookRegs, settingsInit, persistPending, storage, initRuns,
                 startCalls, echoes, inputs, unitVars>>

\* init() after a _startPluginRuntime settled: whatever the result, go on
InitAfterStart ==
  /\ tasks[InitTask].kind = "init" /\ tasks[InitTask].pc = "ret"
  /\ initStartFrom(tasks[InitTask], tasks[InitTask].i + 1, state, instances)
  /\ UNCHANGED <<initialized, initializing, destroyed, opsInFlight, debounce,
                 instances, errors, hookRegs, mem, settingsInit, persistPending,
                 storage, initRuns, startCalls, echoes, inputs, unitVars>>

\* 'framework:ready', the stable DOM and 'dom:ready' are behind: initialized
InitFinish ==
  /\ tasks[InitTask].pc = "init_ready"
  /\ initialized' = TRUE
  /\ initializing' = FALSE
  /\ tasks' = [tasks EXCEPT ![InitTask] = Idle]
  /\ UNCHANGED <<destroyed, opsInFlight, pluginAPIs, debounce, state, instances,
                 errors, snapshots, hookRegs, mem, settingsInit, persistPending,
                 storage, initRuns, startCalls, echoes, inputs, unitVars>>

----------------------------------------------------------------------------
(* FrameworkCore: destroy *)

\* the first entry from k on whose plugin has an API object, 0 when none
RECURSIVE nextWithApi(_, _, _)
nextWithApi(list, k, apis) ==
  IF k > Len(list) THEN 0
  ELSE IF list[k] \in apis THEN k ELSE nextWithApi(list, k + 1, apis)

\* the stop loop of destroy() from entry k on, then the rest of the teardown
destroyFrom(r, k) ==
  LET j == nextWithApi(r.list, k, pluginAPIs)
  IN IF j = 0
     THEN /\ hookRegs' = [p \in Plugins |-> {}]
          /\ pluginAPIs' = {}
          /\ initialized' = FALSE
          /\ tasks' = [tasks EXCEPT ![DestroyTask] = Idle]
          /\ UNCHANGED state
     ELSE /\ stopPluginEntry(DestroyTask, [r EXCEPT !.i = j, !.p = r.list[j]], r.list[j])
          /\ UNCHANGED <<hookRegs, pluginAPIs, initialized>>

\* destroy() is called
DestroyCall ==
  /\ ~destroyed
  /\ tasks[DestroyTask].kind = "idle"
  /\ destroyed' = TRUE
  /\ initializing' = FALSE
  /\ opsInFlight' = {}
  /\ destroyFrom([Idle EXCEPT !.kind = "destroy", !.list = getActivePlugins(state)], 1)
  /\ UNCHANGED <<debounce, instances, errors, snapshots, mem, settingsInit,
                 persistPending, storage, initRuns, startCalls, echoes, inputs, unitVars>>

\* destroy() after a stopPlugin settled: a failure is swallowed
DestroyAfterStop ==
  /\ tasks[DestroyTask].kind = "destroy" /\ tasks[DestroyTask].pc = "ret"
  /\ destroyFrom(tasks[DestroyTask], tasks[DestroyTask].i + 1)
  /\ UNCHANGED <<initializing, destroyed, opsInFlight, debounce, instances, errors,
                 snapshots, mem, settingsInit, persistPending, storage, initRuns,
                 startCalls, echoes, inputs, unitVars>>

----------------------------------------------------------------------------
(* PluginLoader.resolveLoadOrder *)

\* the ids of a list, as a set
Range(list) == {list[k] : k \in 1..Len(list)}

\* the keys of a Map filled by iterating the list: first occurrences, in order
RECURSIVE mapKeys(_)
mapKeys(list) ==
  IF list = << >> THEN << >>
  ELSE LET front == mapKeys(SubSeq(list, 1, Len(list) - 1))
           last == list[Len(list)]
       IN IF last \in Range(front) THEN front ELSE Append(front, last)

\* a graph without edges
neighborsNone(list, deps, d) == << >>

\* graph.get(d) after the edges are built: one entry per entry of the list
\* that names d as a dependency
neighbors(list, deps, d) == SelectSeq(list, LAMBDA x : d \in deps[x])

\* inDegree after the edges are built: one increment per entry of the list
\* and dependency of it that is in the list
inDegree(list, deps) ==
  [x \in Range(list) |->
     Len(SelectSeq(list, LAMBDA y : y = x)) * Cardinality(deps[x] \cap Range(list))]

\* neighbors.forEach of the loop: decrement, and enqueue at zero
RECURSIVE visitNeighbors(_, _, _)
visitNeighbors(nbrs, deg, queue) ==
  IF nbrs = << >> THEN [deg |-> deg, queue |-> queue]
  ELSE LET n == Head(nbrs)
           d == [deg EXCEPT ![n] = @ - 1]
       IN visitNeighbors(Tail(nbrs), d, IF d[n] = 0 THEN Append(queue, n) ELSE queue)

\* the while loop of Kahn's algorithm
RECURSIVE kahn(_, _, _, _, _)
kahn(list, deps, deg, queue, result) ==
  IF queue = << >> THEN result
  ELSE LET current == Head(queue)
           v == visitNeighbors(neighbors(list, deps, current), deg, Tail(queue))
       IN kahn(list, deps, v.deg, v.queue, Append(result, current))

\* resolveLoadOrder: the order, or the error with the ids it names
resolveLoadOrder(list, deps) ==
  LET deg == inDegree(list, deps)
      result == kahn(list, deps, deg, SelectSeq(mapKeys(list), LAMBDA x : deg[x] = 0), << >>)
  IN IF Len(result) # Len(list)
     THEN [done |-> TRUE, ok |-> FALSE, order |-> << >>,
           missing |-> SelectSeq(list, LAMBDA x : x \notin Range(result))]
     ELSE [done |-> TRUE, ok |-> TRUE, order |-> result, missing |-> << >>]

\* the lists of at most n ids
ListsUpTo(n) == UNION {[1..k -> Ids] : k \in 0..n}

\* a registry with any dependencies, and any list about to be resolved
InitOrder ==
  /\ pluginIds \in ListsUpTo(MaxIds)
  /\ allDeps \in [Ids -> SUBSET Ids]
  /\ loadOrder = NoOrder

\* loadPlugins calls resolveLoadOrder(pluginIds)
ResolveLoadOrder ==
  /\ ~loadOrder.done
  /\ loadOrder' = resolveLoadOrder(pluginIds, allDeps)
  /\ UNCHANGED <<pluginIds, allDeps, coreVars, cfgVars, regVars, busVars, ipcVars>>

----------------------------------------------------------------------------
(* HookSystem, the event bus.  A handler is an input: when it is invoked it *)
(* runs for a while and then settles, returning a value, returning          *)
(* undefined or throwing, after calling context.cancel() or not.            *)

\* the numbers of a set, ascending
RECURSIVE ascending(_)
ascending(S) ==
  IF S = {} THEN << >>
  ELSE LET m == CHOOSE x \in S : \A y \in S : x <= y
       IN <<m>> \o ascending(S \ {m})

\* every handler in one group
groupAll(handlers) == IF handlers = << >> THEN << >> ELSE <<handlers>>

\* _groupByPriority: one group per priority, ascending, each in the order of
\* the handlers array
groupByPriority(handlers) ==
  LET ps == ascending({handlers[i].priority : i \in 1..Len(handlers)})
  IN [n \in 1..Len(ps) |-> SelectSeq(handlers, LAMBDA e : e.priority = ps[n])]

RECURSIVE flatten(_)
flatten(groups) == IF groups = << >> THEN << >> ELSE Head(groups) \o flatten(Tail(groups))

\* handlers.sort((a, b) => a.priority - b.priority): a stable sort
sortByPriority(handlers) == flatten(groupByPriority(handlers))

\* register(hookName, handler, {priority, once, plugin}), on the pair of maps
register(bus, hookName, entry) ==
  [hooks |-> [bus.hooks EXCEPT ![hookName] = sortByPriority(Append(@, entry))],
   pluginHooks |->
     IF entry.plugin # NoOwner
     THEN [bus.pluginHooks EXCEPT
             ![entry.plugin] = Append(@, [hookName |-> hookName, id |-> entry.id])]
     ELSE bus.pluginHooks]

\* list.splice(index, 1)
splice(list, index) == SubSeq(list, 1, index - 1) \o SubSeq(list, index + 1, Len(list))

\* list.findIndex(x => x.id === handlerId and, for the records of an owner,
\* x.hookName === hookName), 0 when there is none
findIndex(list, hookName, handlerId) ==
  LET hit(i) == list[i].id = handlerId /\ ("hookName" \in DOMAIN list[i] => list[i].hookName = hookName)
  IN IF \E i \in 1..Len(list) : hit(i)
     THEN CHOOSE i \in 1..Len(list) : hit(i) /\ \A j \in 1..(i - 1) : ~hit(j)
     ELSE 0

\* _unregister(hookName, handlerId): the handler leaves the hook's array and
\* its record leaves the owner's list
unregisterById(bus, hookName, handlerId) ==
  LET index == findIndex(bus.hooks[hookName], hookName, handlerId)
  IN IF index = 0 THEN bus
     ELSE LET removed == bus.hooks[hookName][index]
              idx == IF removed.plugin = NoOwner THEN 0
                     ELSE findIndex(bus.pluginHooks[removed.plugin], hookName, handlerId)
          IN [hooks |-> [bus.hooks EXCEPT ![hookName] = splice(@, index)],
              pluginHooks |->
                IF idx = 0 THEN bus.pluginHooks
                ELSE [bus.pluginHooks EXCEPT ![removed.plugin] = splice(@, idx)]]

\* pluginHookList.forEach(({hookName, id}) => this._unregister(hookName, id)):
\* forEach visits the indices in turn, over the array as it is at each visit,
\* and _unregister splices that same array
RECURSIVE forEachUnregister(_, _, _)
forEachUnregister(bus, pluginId, i) ==
  IF i > Len(bus.pluginHooks[pluginId]) THEN bus
  ELSE LET r == bus.pluginHooks[pluginId][i]
       IN forEachUnregister(unregisterById(bus, r.hookName, r.id), pluginId, i + 1)

\* unregisterPlugin(pluginId)
unregisterPlugin(bus, pluginId) ==
  LET after == forEachUnregister(bus, pluginId, 1)
  IN [after EXCEPT !.pluginHooks[pluginId] = << >>]

\* handlersToRemove.forEach(({hookName, id}) => this._unregister(hookName, id))
RECURSIVE unregisterAll(_, _, _)
unregisterAll(bus, hookName, ids) ==
  IF ids = << >> THEN bus
  ELSE unregisterAll(unregisterById(bus, hookName, Head(ids)), hookName, Tail(ids))

Bus == [hooks |-> hooks, pluginHooks |-> pluginHooks]

\* a call of register by the framework, a plugin's API or _registerPluginHooks
Register(hookName, priority, once, plugin) ==
  /\ nextId <= MaxRegs
  /\ LET after == register(Bus, hookName,
                           [id |-> nextId, priority |-> priority, once |-> once,
                            plugin |-> plugin])
     IN /\ hooks' = after.hooks
        /\ pluginHooks' = after.pluginHooks
  /\ nextId' = nextId + 1
  /\ UNCHANGED <<em, coreVars, cfgVars, regVars, loaderVars, ipcVars>>

\* a call of the function register returned
Unregister(hookName, handlerId) ==
  /\ \E i \in 1..Len(hooks[hookName]) : hooks[hookName][i].id = handlerId
  /\ LET after == unregisterById(Bus, hookName, handlerId)
     IN /\ hooks' = after.hooks
        /\ pluginHooks' = after.pluginHooks
  /\ UNCHANGED <<nextId, em, coreVars, cfgVars, regVars, loaderVars, ipcVars>>

\* a call of unregisterPlugin for an owner that has a list
UnregisterPlugin(pluginId) ==
  /\ pluginHooks[pluginId] # << >>
  /\ LET after == unregisterPlugin(Bus, pluginId)
     IN /\ hooks' = after.hooks
        /\ pluginHooks' = after.pluginHooks
  /\ UNCHANGED <<nextId, em, coreVars, cfgVars, regVars, loaderVars, ipcVars>>

\* the outcome a handler of the emission settled with, "none" while it runs
outcomeOf(e, id) ==
  IF \E r \in e.res : r.id = id
  THEN (CHOOSE r \in e.res : r.id = id).out
  ELSE "none"

\* entry.handler(context) is called: the handler begins with context.data
invoke(e, entry) ==
  [e EXCEPT !.running = @ \cup {entry.id},
            !.began = Append(@, [id |-> entry.id, input |-> e.ctx])]

RECURSIVE invokeAll(_, _)
invokeAll(e, group) ==
  IF group = << >> THEN e ELSE invokeAll(invoke(e, Head(group)), Tail(group))

\* the head of the loop over the groups: leave it, or build the context of
\* group g and call its handlers, all of them or the first
startGroup(e, g) ==
  IF g > Len(e.groups) \/ e.cancelled
  THEN [e EXCEPT !.pc = "finally", !.lastValue = 0]
  ELSE LET c == [e EXCEPT !.g = g, !.k = 1, !.ctx = e.data, !.lastValue = 0]
       IN IF e.parallel THEN invokeAll(c, e.groups[g]) ELSE invoke(c, e.groups[g][1])

\* the once handlers of a group, in the order of the group
onceIds(group) ==
  LET marked == SelectSeq(group, LAMBDA x : x.once)
  IN [i \in 1..Len(marked) |-> marked[i].id]

\* after Promise.allSettled: mark the once handlers, and take the value of the
\* last handler of the group that returned one
afterGroup(e) ==
  LET group == e.groups[e.g]
      fulfilled == SelectSeq(group, LAMBDA x : outcomeOf(e, x.id) = "value")
  IN [e EXCEPT !.toRemove = @ \o onceIds(group),
               !.data = IF fulfilled = << >> THEN @ ELSE fulfilled[Len(fulfilled)].id]

\* after the await in the sequential loop: take the value, mark a once
\* handler unless it threw, and go on with the group or leave it
afterHandler(e, entry, out) ==
  LET d == [e EXCEPT !.data = IF out = "value" THEN entry.id ELSE @,
                     !.toRemove = IF out # "throw" /\ entry.once
                                  THEN Append(@, entry.id) ELSE @]
  IN IF e.k < Len(e.groups[e.g]) /\ ~e.cancelled
     THEN invoke([d EXCEPT !.k = e.k + 1], e.groups[e.g][e.k + 1])
     ELSE startGroup(d, e.g + 1)

\* the emission goes on, or runs its finally block and returns
Continue(e) ==
  IF e.pc = "finally"
  THEN LET after == unregisterAll(Bus, e.hookName, e.toRemove)
       IN /\ em' = [e EXCEPT !.pc = "idle"]
          /\ hooks' = after.hooks
          /\ pluginHooks' = after.pluginHooks
  ELSE /\ em' = e
       /\ UNCHANGED <<hooks, pluginHooks>>

\* emit(hookName, data, {parallel, cancelable}) up to its first await
EmitCall(hookName, parallel, cancelable) ==
  /\ em.pc = "idle"
  /\ LET e == [NoEmit EXCEPT !.pc = "run", !.hookName = hookName,
                             !.parallel = parallel, !.cancelable = cancelable,
                             !.groups = groupByPriority(hooks[hookName])]
     IN Continue(startGroup(e, 1))
  /\ UNCHANGED <<nextId, coreVars, cfgVars, regVars, loaderVars, ipcVars>>

\* a handler of the emission settles, and emit runs on to its next await
HandlerSettled(id, out, cancel) ==
  /\ em.pc = "run"
  /\ id \in em.running
  /\ LET e == [em EXCEPT !.running = @ \ {id},
                         !.res = @ \cup {[id |-> id, out |-> out]},
                         !.called = @ \/ cancel,
                         !.lastValue = IF out = "value" THEN id ELSE @,
                         !.cancelled = @ \/ (cancel /\ em.cancelable)]
     IN IF e.parallel
        THEN IF e.running # {} THEN Continue(e)
             ELSE Continue(startGroup(afterGroup(e), e.g + 1))
        ELSE Continue(afterHandler(e, e.groups[e.g][e.k], out))
  /\ UNCHANGED <<nextId, coreVars, cfgVars, regVars, loaderVars, ipcVars>>

----------------------------------------------------------------------------
(* IPCManager, the message broker.  Two instances are in play: the one that *)
(* sends requests, and the one of a peer context that answers them.  The    *)
(* transport is runtime.sendMessage: the peer's listener gets the message    *)
(* and what it passes to sendResponse fulfils the promise sendMessage        *)
(* returned to the sender.                                                   *)

\* clearTimeout that leaves the timer armed
clearTimeoutNever(ts, id) == ts

\* clearTimeout(timeoutId)
clearTimeout(ts, id) == ts \ {id}

\* pendingRequests.delete that keeps the record
pendingDeleteNever(pending, id) == pending

\* this.pendingRequests.delete(requestId)
pendingDelete(pending, id) == pending \ {id}

\* resolve(value) or reject(error) of the promise request returned: the first
\* call settles it, every call is counted
settle(ps, id, outcome, value) ==
  [ps EXCEPT ![id] = IF @.outcome = "pending"
                     THEN [@ EXCEPT !.outcome = outcome, !.value = value, !.calls = @ + 1]
                     ELSE [@ EXCEPT !.calls = Min(@ + 1, 2)]]

Broker == [pendingRequests |-> pendingRequests, timers |-> timers, promises |-> promises]

\* _handleResponse(message)
handleResponse(b, message) ==
  IF message.requestId \notin b.pendingRequests THEN b
  ELSE [pendingRequests |-> pendingDelete(b.pendingRequests, message.requestId),
        timers |-> clearTimeout(b.timers, message.requestId),
        promises |-> IF message.success
                     THEN settle(b.promises, message.requestId, "resolved", message.data)
                     ELSE settle(b.promises, message.requestId, "rejected", message.error)]

\* the callback of the timer of request
onTimeout(b, id) ==
  [pendingRequests |-> pendingDelete(b.pendingRequests, id),
   timers |-> b.timers,
   promises |-> settle(b.promises, id, "rejected", "Request timeout")]

\* the catch handler on the promise sendMessage returned
onSendRejected(b, id) ==
  [pendingRequests |-> pendingDelete(b.pendingRequests, id),
   timers |-> clearTimeout(b.timers, id),
   promises |-> settle(b.promises, id, "rejected", "Context no longer available")]

\* the promise sendMessage returned is fulfilled with the peer's reply:
\* request attached a catch handler only
onSendFulfilled(b, reply) == b

SetBroker(b) ==
  /\ pendingRequests' = b.pendingRequests
  /\ timers' = b.timers
  /\ promises' = b.promises

\* the message a broker hands to the transport, and whether the broker was
\* destroyed by then
Envelope(c, type) == [type |-> type, late |-> c \in ipcDestroyed]

\* the forEach of destroy that leaves the promises alone
rejectNone(ps, pending) == ps

\* the forEach of destroy over the pending records: pending.reject(...)
rejectAll(ps, pending) ==
  [id \in DOMAIN ps |->
     IF id \in pending THEN settle(ps, id, "rejected", "IPC destroyed")[id] ELSE ps[id]]

\* the forEach of destroy over the pending records: clearTimeout(pending.timeout)
clearTimeouts(ts, pending) == {id \in ts : clearTimeout({id}, id) # {} \/ id \notin pending}

\* destroy() on the tables of the broker that sends the requests
destroyBroker(b) ==
  [pendingRequests |-> {},
   timers |-> clearTimeouts(b.timers, b.pendingRequests),
   promises |-> rejectAll(b.promises, b.pendingRequests)]

\* request(action, data, {timeout}): the record, the timer, and the message
\* handed to sendMessage; a destroyed broker throws before any of it
Request(action) ==
  /\ requestId < MaxReqs
  /\ IF "sender" \in ipcDestroyed
     THEN UNCHANGED <<requestId, timers, pendingRequests, promises, channel, sent>>
     ELSE /\ requestId' = requestId + 1
          /\ timers' = timers \cup {requestId'}
          /\ pendingRequests' = pendingRequests \cup {requestId'}
          /\ promises' = [promises EXCEPT ![requestId'] =
                            [action |-> action, outcome |-> "pending", value |-> "none",
                             calls |-> 0]]
          /\ channel' = [channel EXCEPT ![requestId'] = [st |-> "sent", reply |-> NoReply]]
          /\ sent' = sent \cup {Envelope("sender", "REQUEST")}
  /\ UNCHANGED <<ipcHandlers, dropped, ipcDestroyed, bcast, coreVars, cfgVars, regVars, loaderVars, busVars>>

\* the timer of a request fires
Timeout(id) ==
  /\ id \in timers
  /\ SetBroker([onTimeout(Broker, id) EXCEPT !.timers = @ \ {id}])
  /\ UNCHANGED <<requestId, ipcHandlers, channel, dropped, endVars,
                 coreVars, cfgVars, regVars, loaderVars, busVars>>

\* sendMessage fails: no receiving end, the context is gone, or the port was
\* closed without a reply
SendFails(id) ==
  /\ channel[id].st \in {"sent", "ignored"}
  /\ channel' = [channel EXCEPT ![id].st = "failed"]
  /\ SetBroker(onSendRejected(Broker, id))
  /\ UNCHANGED <<requestId, ipcHandlers, dropped, endVars, coreVars, cfgVars, regVars, loaderVars, busVars>>

\* on(action, handler) in the peer context
On(action) ==
  /\ action \notin ipcHandlers
  /\ ipcHandlers' = ipcHandlers \cup {action}
  /\ UNCHANGED <<requestId, pendingRequests, timers, promises, channel, dropped, endVars,
                 coreVars, cfgVars, regVars, loaderVars, busVars>>

\* off(action) in the peer context
Off(action) ==
  /\ action \in ipcHandlers
  /\ ipcHandlers' = ipcHandlers \ {action}
  /\ UNCHANGED <<requestId, pendingRequests, timers, promises, channel, dropped, endVars,
                 coreVars, cfgVars, regVars, loaderVars, busVars>>

\* safeSendResponse(response) of the peer: nothing is passed on once the
\* broker is destroyed
safeSendResponse(id, response) ==
  IF "peer" \in ipcDestroyed
  THEN /\ channel' = [channel EXCEPT ![id] = [st |-> "ignored", reply |-> NoReply]]
       /\ UNCHANGED sent
  ELSE /\ channel' = [channel EXCEPT ![id] = [st |-> "replied", reply |-> response]]
       /\ sent' = sent \cup {Envelope("peer", "RESPONSE")}

\* the peer's listener gets the REQUEST: a destroyed broker returns at once,
\* otherwise _handleRequest answers that there is no handler, or calls the
\* handler
HandleRequest(id) ==
  /\ channel[id].st = "sent"
  /\ IF "peer" \in ipcDestroyed
     THEN /\ channel' = [channel EXCEPT ![id] = [st |-> "ignored", reply |-> NoReply]]
          /\ UNCHANGED sent
     ELSE IF promises[id].action \notin ipcHandlers
          THEN safeSendResponse(id, [success |-> FALSE, payload |-> "No handler",
                                     requestId |-> 0])
          ELSE /\ channel' = [channel EXCEPT ![id] = [st |-> "handling", reply |-> NoReply]]
               /\ UNCHANGED sent
  /\ UNCHANGED <<requestId, pendingRequests, timers, promises, ipcHandlers, dropped,
                 ipcDestroyed, bcast, coreVars, cfgVars, regVars, loaderVars, busVars>>

\* the peer's handler settles and _handleRequest calls sendResponse
HandlerDone(id, ok) ==
  /\ channel[id].st = "handling"
  /\ safeSendResponse(id, [success |-> ok,
                           payload |-> IF ok THEN HandlerValue ELSE HandlerError,
                           requestId |-> id])
  /\ UNCHANGED <<requestId, pendingRequests, timers, promises, ipcHandlers, dropped,
                 ipcDestroyed, bcast, coreVars, cfgVars, regVars, loaderVars, busVars>>

\* what the peer passed to sendResponse reaches the sender
ReplyArrives(id) ==
  /\ channel[id].st = "replied"
  /\ channel' = [channel EXCEPT ![id].st = "closed"]
  /\ SetBroker(onSendFulfilled(Broker, channel[id].reply))
  /\ UNCHANGED <<requestId, ipcHandlers, dropped, endVars, coreVars, cfgVars, regVars, loaderVars, busVars>>

\* a message of type RESPONSE reaches the sender's listener, which returns at
\* once when the broker is destroyed
ResponseArrives(id, success) ==
  /\ id \in 1..requestId
  /\ id \notin dropped
  /\ IF "sender" \in ipcDestroyed
     THEN UNCHANGED <<pendingRequests, timers, promises>>
     ELSE SetBroker(handleResponse(Broker, [requestId |-> id, success |-> success,
                                            data |-> HandlerValue, error |-> HandlerError]))
  /\ dropped' = IF id \in pendingRequests /\ "sender" \notin ipcDestroyed
                THEN dropped ELSE dropped \cup {id}
  /\ UNCHANGED <<requestId, ipcHandlers, channel, endVars, coreVars, cfgVars, regVars, loaderVars, busVars>>

\* destroy() of the broker of context c: the second call returns at once
Destroy(c) ==
  /\ IF c \in ipcDestroyed
     THEN UNCHANGED <<ipcDestroyed, pendingRequests, timers, promises, ipcHandlers>>
     ELSE /\ ipcDestroyed' = ipcDestroyed \cup {c}
          /\ IF c = "sender"
             THEN SetBroker(destroyBroker(Broker)) /\ UNCHANGED ipcHandlers
             ELSE ipcHandlers' = {} /\ UNCHANGED <<pendingRequests, timers, promises>>
  /\ UNCHANGED <<requestId, channel, dropped, bcast, sent, coreVars, cfgVars, regVars, loaderVars, busVars>>

\* sendEvent(event, data) of the broker of context c
SendEvent(c) ==
  /\ sent' = IF c \in ipcDestroyed THEN sent ELSE sent \cup {Envelope(c, "EVENT")}
  /\ UNCHANGED <<requestId, pendingRequests, timers, promises, ipcHandlers, channel,
                 dropped, ipcDestroyed, bcast, coreVars, cfgVars, regVars, loaderVars, busVars>>

\* broadcast(event, data) of the broker of context c, up to the await of
\* chrome.tabs.query where there are tabs, and to the end where there are none
BroadcastCall(c) ==
  /\ c \notin bcast
  /\ IF c \in ipcDestroyed THEN UNCHANGED <<bcast, sent>>
     ELSE IF c \in TabsApi THEN bcast' = bcast \cup {c} /\ UNCHANGED sent
     ELSE sent' = sent \cup {Envelope(c, "BROADCAST")} /\ UNCHANGED bcast
  /\ UNCHANGED <<requestId, pendingRequests, timers, promises, ipcHandlers, channel,
                 dropped, ipcDestroyed, coreVars, cfgVars, regVars, loaderVars, busVars>>

\* chrome.tabs.query settles: broadcast sends to every tab and to the runtime
BroadcastQueried(c) ==
  /\ c \in bcast
  /\ bcast' = bcast \ {c}
  /\ sent' = sent \cup {Envelope(c, "BROADCAST")}
  /\ UNCHANGED <<requestId, pendingRequests, timers, promises, ipcHandlers, channel,
                 dropped, ipcDestroyed, coreVars, cfgVars, regVars, loaderVars, busVars>>

\* sendToTab(tabId, action, data) of the broker of context c: it throws where
\* there are no tabs
SendToTab(c) ==
  /\ sent' = IF c \in TabsApi THEN sent \cup {Envelope(c, "EVENT")} ELSE sent
  /\ UNCHANGED <<requestId, pendingRequests, timers, promises, ipcHandlers, channel,
                 dropped, ipcDestroyed, bcast, coreVars, cfgVars, regVars, loaderVars, busVars>>

----------------------------------------------------------------------------
(* Specifications.  Hook outcomes and call patterns are the inputs; each    *)
(* specification below lets a part of the environment act.                 *)

Outcomes == {"ok", "throw"}

\* the lifecycle steps of every task, the hooks settling with an outcome of O
\* and the init hook registering a handler of its own or not, as R allows
Lifecycle(O, R) ==
  \E t \in TaskIds :
    \/ \E o \in O, reg \in R : LcInitDone(t, o, reg)
    \/ LcBeforeEnableDone(t)
    \/ \E o \in O : LcStartDone(t, o)
    \/ LcStartFailed(t)
    \/ LcBeforeDisableDone(t)
    \/ \E o \in O : LcStopDone(t, o)

\* the lifecycle steps when no hook fails
LifecycleOk ==
  \E t \in TaskIds :
    \/ LcInitDone(t, "ok", FALSE)
    \/ LcBeforeEnableDone(t)
    \/ LcStartDone(t, "ok")
    \/ LcBeforeDisableDone(t)
    \/ LcStopDone(t, "ok")

Startup == InitCall \/ InitSettingsLoaded \/ InitLoaded \/ InitAfterStart \/ InitFinish

Teardown == DestroyCall \/ DestroyAfterStop

\* init() has completed and the framework is live
Running == initialized /\ ~destroyed /\ tasks[InitTask].kind = "idle"

NoCommand == \A t \in CmdTasks : tasks[t].kind = "idle"

CommandSteps ==
  \E t \in CmdTasks :
    \/ EnableWritten(t)
    \/ EnableAfterStart(t)
    \/ EnableReverted(t)
    \/ DisableWritten(t)
    \/ DisableAfterStop(t)
    \/ Release(t)

\* Startup and teardown in any interleaving, hooks may fail.
Next == Startup \/ Teardown \/ Lifecycle(Outcomes, BOOLEAN)

Spec == Init /\ [][Next]_vars

\* Teardown of a framework whose startup has completed.
NextTeardown ==
  \/ Startup
  \/ (Running /\ DestroyCall)
  \/ DestroyAfterStop
  \/ Lifecycle(Outcomes, BOOLEAN)

SpecTeardown == Init /\ [][NextTeardown]_vars

\* Commands issued to the live framework, overlapping freely, hooks may fail.
NextCommands ==
  \/ Startup
  \/ (Running /\ \E p \in Plugins : EnableCall(p))
  \/ (Running /\ \E p \in Plugins : DisableCall(p))
  \/ CommandSteps
  \/ Lifecycle(Outcomes, {FALSE})

SpecCommands == Init /\ [][NextCommands]_vars

\* enablePlugin calls only, overlapping freely, on plugins whose hooks succeed.
NextEnable ==
  \/ Startup
  \/ (Running /\ \E p \in Plugins : EnableCall(p))
  \/ (\E t \in CmdTasks : EnableWritten(t) \/ EnableAfterStart(t) \/ Release(t))
  \/ (\E t \in TaskIds :
        LcInitDone(t, "ok", FALSE) \/ LcBeforeEnableDone(t) \/ LcStartDone(t, "ok"))

SpecEnable == Init /\ [][NextEnable]_vars

\* Changes made by other contexts at any time, reconciled while hooks may
\* fail.
NextReconcile ==
  \/ Startup
  \/ (\E p \in Plugins : ExternalWrite(p))
  \/ DebounceFire
  \/ (\E t \in RecTasks : ReconcileNext(t))
  \/ Lifecycle(Outcomes, {FALSE})

SpecReconcile == Init /\ [][NextReconcile]_vars

\* This context's own commands (one at a time) on the live framework, their
\* writes persisted and reported back by the store, no hook failing.
NextEcho ==
  \/ Startup
  \/ (Running /\ NoCommand /\ \E p \in Plugins : EnableCall(p))
  \/ (Running /\ NoCommand /\ \E p \in Plugins : DisableCall(p))
  \/ CommandSteps
  \/ PersistFire
  \/ DebounceFire
  \/ (\E t \in RecTasks : ReconcileNext(t))
  \/ LifecycleOk

SpecEcho == Init /\ [][NextEcho]_vars

\* Changes from other contexts only, arriving at the live framework, no hook
\* failing.
NextExternal ==
  \/ Startup
  \/ (Running /\ \E p \in Plugins : ExternalWrite(p))
  \/ DebounceFire
  \/ (\E t \in RecTasks : ReconcileNext(t))
  \/ LifecycleOk

SpecExternal == Init /\ [][NextExternal]_vars

\* destroyPlugin called on the live framework, hooks may fail.
NextDestroyPlugin ==
  \/ Startup
  \/ (Running /\ \E p \in Plugins : DestroyPluginCall(p))
  \/ DestroyPluginAfterStop(LcTask)
  \/ (\E o \in Outcomes : LcDestroyDone(LcTask, o))
  \/ Lifecycle(Outcomes, {FALSE})

SpecDestroyPlugin == Init /\ [][NextDestroyPlugin]_vars

\* Changes from other contexts, and this context's plugins writing settings
\* other than 'enabled'; no hook failing.
NextRevert ==
  \/ Startup
  \/ (Running /\ \E p \in Plugins : ExternalWrite(p))
  \/ (Running /\ \E p \in Plugins, value \in BOOLEAN : SettingsSet(p, "hideThreads", value))
  \/ PersistFire
  \/ DebounceFire
  \/ (\E t \in RecTasks : ReconcileNext(t))
  \/ LifecycleOk

SpecRevert == Init /\ [][NextRevert]_vars

\* The plugins of this context writing their declared settings, the writes
\* persisted and reported back by the store; no hook failing.
NextOwnKeys ==
  \/ Startup
  \/ (Running /\ \E p \in Plugins, key \in OwnKeys, value \in BOOLEAN :
                   SettingsSet(p, key, value))
  \/ PersistFire
  \/ DebounceFire
  \/ (\E t \in RecTasks : ReconcileNext(t))
  \/ LifecycleOk

SpecOwnKeys == Init /\ [][NextOwnKeys]_vars

\* The LifecycleManager and the loader called directly, one call at a time,
\* on the live framework whose manifests declare a dependency or a conflict;
\* hooks may fail.
NextLifecycle ==
  \/ Startup
  \/ (Running /\ \E p \in Plugins : StartPluginCall(p))
  \/ (Running /\ \E p \in Plugins : StopPluginCall(p))
  \/ (Running /\ \E p \in Plugins : DestroyPluginCall(p))
  \/ (Running /\ \E p \in Plugins : HandleErrorCall(p))
  \/ (Running /\ \E p \in Plugins : LoadPluginCall(p))
  \/ HandleErrorEmitted(LcTask) \/ LcReturn(LcTask) \/ LoadImported(LcTask)
  \/ DestroyPluginAfterStop(LcTask)
  \/ (\E o \in Outcomes : LcDestroyDone(LcTask, o))
  \/ Lifecycle(Outcomes, {FALSE})

SpecLifecycle == InitDeclaring /\ [][NextLifecycle]_vars

\* The startup sequence over manifests that declare a dependency or a
\* conflict, no hook failing.
NextStartup ==
  \/ Startup
  \/ LcInitDone(InitTask, "ok", FALSE)
  \/ LcBeforeEnableDone(InitTask)
  \/ LcStartDone(InitTask, "ok")

SpecStartup == InitDeclaring /\ [][NextStartup]_vars

\* resolveLoadOrder called on any list of ids, under any dependencies.
NextOrder == ResolveLoadOrder

\* any registry and any list, everything else as constructed
InitResolve == InitCore /\ InitOrder /\ InitBus /\ InitIpc /\ InitCfg /\ InitReg

SpecOrder == InitResolve /\ [][NextOrder]_vars

\* Handlers of the framework and of plugins come and go on the bus: single
\* registrations, single removals and the removal of all an owner has.
NextOwners ==
  \/ \E h \in HookNames, p \in Priorities, o \in Owners \cup {NoOwner} : Register(h, p, FALSE, o)
  \/ \E h \in HookNames, id \in 1..MaxRegs : Unregister(h, id)
  \/ \E o \in Owners : UnregisterPlugin(o)

SpecOwners == InitUnit /\ [][NextOwners]_vars

\* Emissions on one hook, one at a time, while handlers are registered on it.
NextEmit ==
  \/ \E p \in Priorities, once \in BOOLEAN : Register("h1", p, once, NoOwner)
  \/ \E parallel, cancelable \in BOOLEAN : EmitCall("h1", parallel, cancelable)
  \/ \E id \in 1..MaxRegs, out \in HandlerOutcomes, cancel \in BOOLEAN :
       HandlerSettled(id, out, cancel)

SpecEmit == InitUnit /\ [][NextEmit]_vars

\* Requests sent to a peer context that registers and removes handlers; the
\* transport delivers or fails.
NextRequest ==
  \/ \E a \in Actions : Request(a) \/ On(a) \/ Off(a)
  \/ \E id \in 1..MaxReqs :
       \/ HandleRequest(id)
       \/ \E ok \in BOOLEAN : HandlerDone(id, ok)
       \/ ReplyArrives(id)
       \/ SendFails(id)
       \/ Timeout(id)

SpecRequest == InitUnit /\ [][NextRequest]_vars

\* Requests that no peer answers through the transport, while some context
\* sends messages of type RESPONSE.
NextResponse ==
  \/ \E a \in Actions : Request(a)
  \/ \E id \in 1..MaxReqs :
       \/ Timeout(id)
       \/ \E success \in BOOLEAN : ResponseArrives(id, success)

SpecResponse == InitUnit /\ [][NextResponse]_vars

\* Requests, responses and timeouts around the destruction of the brokers.
NextDestroy ==
  \/ \E a \in Actions : Request(a) \/ On(a)
  \/ \E c \in Contexts : Destroy(c)
  \/ \E id \in 1..MaxReqs :
       \/ Timeout(id)
       \/ SendFails(id)
       \/ \E success \in BOOLEAN : ResponseArrives(id, success)

SpecDestroy == InitUnit /\ [][NextDestroy]_vars

\* Every operation that sends, around the destruction of the brokers.
NextSends ==
  \/ \E a \in Actions : Request(a) \/ On(a)
  \/ \E c \in Contexts :
       \/ Destroy(c)
       \/ SendEvent(c)
       \/ BroadcastCall(c)
       \/ BroadcastQueried(c)
       \/ SendToTab(c)
  \/ \E id \in 1..MaxReqs :
       \/ HandleRequest(id)
       \/ \E ok \in BOOLEAN : HandlerDone(id, ok)

SpecSends == InitUnit /\ [][NextSends]_vars

----------------------------------------------------------------------------
(* SettingsStore on its own, for the settings of one plugin 'p' *)

\* _getDefaults(schema): the keys whose definition has a default
getDefaults(schema) == [k \in Keys |-> schema[k].default]

\* {...defaults, ...current} written the other way round
spreadDefaultsLast(defaults, current) ==
  [k \in Keys |-> IF defaults[k] # Undefined THEN defaults[k] ELSE current[k]]

\* {...defaults, ...current}
spread(defaults, current) ==
  [k \in Keys |-> IF current[k] # Undefined THEN current[k] ELSE defaults[k]]

\* the entry of the plugin after registerSchema(pluginId, schema)
seedOrMerge(entry, schema) ==
  IF ~entry.present
  THEN [present |-> TRUE, enabled |-> FALSE, settings |-> getDefaults(schema)]
  ELSE [entry EXCEPT !.settings = spread(getDefaults(schema), entry.settings)]

\* _validate that accepts every value
validateAny(hasSchema, schema, key, value) == TRUE

\* _validate(pluginId, key, value)
validate(hasSchema, schema, key, value) ==
  IF ~hasSchema \/ key \notin Keys \/ schema[key] = NoDef THEN TRUE
  ELSE LET d == schema[key]
       IN /\ d.type \in {"boolean", "string"} => value.t = d.type
          /\ d.type = "number" =>
               /\ value.t = "number"
               /\ d.min # NoBound => ~(value.v < d.min)
               /\ d.max # NoBound => ~(value.v > d.max)
          /\ d.enum # NoEnum => value \in d.enum
          /\ d.validator # NoValidator => value \in d.validator

\* get(pluginId, key) for a key of the settings
get(entry, key) == IF entry.present THEN entry.settings[key] ELSE Undefined

\* the callbacks _notifyWatchers calls for a change of key
notifyWatchers(watchers, key) ==
  Cardinality(watchers \cap {"p." \o key, "p"})

\* _queuePersist that arms a timer without clearing the one that is armed
queuePersistNoClear(c) == [c EXCEPT !.batchTimeout = TRUE, !.armed = @ + 1]

\* _queuePersist(): clearTimeout of the handle kept, then a new timer
queuePersist(c) ==
  [c EXCEPT !.batchTimeout = TRUE,
            !.armed = (IF c.batchTimeout /\ @ > 0 THEN @ - 1 ELSE @) + 1]

\* set after validation: memory, _queuePersist, the watchers, the two events
written(c, key, value) ==
  LET e == IF c.entry.present THEN c.entry ELSE [NoEntry EXCEPT !.present = TRUE]
  IN [queuePersist(c) EXCEPT
               !.entry = IF key = "enabled" THEN [e EXCEPT !.enabled = value = True]
                         ELSE [e EXCEPT !.settings[key] = value],
               !.notified = @ + notifyWatchers(c.watchers, key),
               !.emitted = @ + 2,
               !.last = "set"]

\* registerSchema('p', schema)
RegisterSchema(schema) ==
  /\ cfg.regs < MaxSchemas
  /\ cfg' = [cfg EXCEPT !.hasSchema = TRUE, !.schema = schema,
                        !.entry = seedOrMerge(cfg.entry, schema),
                        !.regs = @ + 1,
                        !.last = IF cfg.entry.present THEN "merged" ELSE "seeded"]
  /\ UNCHANGED <<coreVars, regVars, loaderVars, busVars, ipcVars>>

\* set('p', key, value, skipValidation)
Set(key, value, skipValidation) ==
  /\ cfg.sets < MaxSets
  /\ LET c == [cfg EXCEPT !.sets = @ + 1]
     IN cfg' = IF ~skipValidation /\ ~validate(c.hasSchema, c.schema, key, value)
               THEN [c EXCEPT !.last = "Invalid value"]
               ELSE written(c, key, value)
  /\ UNCHANGED <<coreVars, regVars, loaderVars, busVars, ipcVars>>

\* watch('p', key, callback), key null for the plugin-wide watchers
Watch(watchKey) ==
  /\ watchKey \notin cfg.watchers
  /\ cfg' = [cfg EXCEPT !.watchers = @ \cup {watchKey}]
  /\ UNCHANGED <<coreVars, regVars, loaderVars, busVars, ipcVars>>

\* a batch timer of _queuePersist fires: _persist hands the document to the
\* storage, and the handle is set to null
BatchFire ==
  /\ cfg.armed > 0
  /\ cfg' = [cfg EXCEPT !.batchTimeout = FALSE, !.armed = @ - 1,
                        !.writes = @ + 1, !.stored = cfg.entry]
  /\ UNCHANGED <<coreVars, regVars, loaderVars, busVars, ipcVars>>

\* Schemas registered and registered again, values set, enable and disable.
NextSettings ==
  \/ \E schema \in Schemas : RegisterSchema(schema)
  \/ \E key \in Keys, value \in Values : Set(key, value, FALSE)
  \/ \E value \in {True, False} : Set("enabled", value, TRUE)
  \/ \E watchKey \in WatchKeys : Watch(watchKey)

SpecSettings == InitUnit /\ [][NextSettings]_vars

\* Values set in bursts, and the batch timer.
NextPersist ==
  \/ \E key \in Keys, value \in Values : Set(key, value, FALSE)
  \/ \E value \in {True, False} : Set("enabled", value, TRUE)
  \/ BatchFire

SpecPersist == InitUnit /\ [][NextPersist]_vars

----------------------------------------------------------------------------
(* Properties *)

LifecyclePcs == {"lc_init", "lc_before_enable", "lc_start", "lc_rolled_back",
                 "lc_before_disable", "lc_stop", "ret"}

\* task t takes a step of the reconcile path, or of step 6 of init()
RuntimeOnlyStep(t) ==
  /\ tasks'[t] # tasks[t]
  /\ \/ tasks[t].kind = "reconcile"
     \/ tasks'[t].kind = "reconcile"
     \/ tasks[t].kind = "init" /\ tasks[t].pc \in LifecyclePcs \cup {"init_load"}

\* C1: no step of the reconcile path (_handleStorageChange, _reconcileEnable,
\* _reconcileDisable) and no step of startup step 6 (_startPluginRuntime for
\* the enabled plugins) writes configuration: the enabled flags of the
\* in-memory settings document are unchanged, no persist is scheduled and the
\* persisted document is unchanged, also when the start or stop fails.
ReconcileNeverWritesConfig ==
  [][\A t \in TaskIds :
       RuntimeOnlyStep(t) =>
         /\ persisted(mem') = persisted(mem)
         /\ persistPending' = persistPending
         /\ storage' = storage]_vars

\* a reconcile whose start failed, and the configuration is as the other
\* context wrote it: enabled in storage, not enabled in this context's document
ReconcileFailedConfigKept ==
  \E t \in RecTasks :
    /\ tasks[t].kind = "reconcile" /\ tasks[t].pc = "ret" /\ tasks[t].ret = "false"
    /\ tasks[t].chg.new[tasks[t].p]
    /\ storage[tasks[t].p]
    /\ mem[tasks[t].p] = "off"
    /\ ~persistPending

\* C2: when _handleStorageChange invokes _reconcileEnable or _reconcileDisable
\* for a plugin, the operation token of that plugin and direction is not in
\* flight; a change processed while its token is in flight is an echo and
\* invokes neither.
EchoNeverReconciled ==
  [][\A t \in RecTasks :
       (tasks'[t].kind = "reconcile" /\ tasks'[t].i # tasks[t].i) =>
         <<tasks'[t].p, direction(tasks'[t].chg.new[tasks'[t].p])>> \notin opsInFlight]_vars

\* a pass has just ignored a change whose token is in flight, and no reconcile
\* call is working on that plugin
EchoIgnored ==
  \E tok \in echoes :
    /\ tok \in opsInFlight
    /\ \A t \in RecTasks : tasks[t].kind = "reconcile" => tasks[t].p # tok[1]

\* C3: when enablePlugin(id) calls overlap on a startable plugin, the start
\* hook of the plugin is invoked once (and so STARTING is entered once), and
\* no call fails: every call that has settled resolves true.
EnableTwiceStartsOnce ==
  /\ \A p \in Plugins : startCalls[p] <= 1
  /\ \A t \in CmdTasks : tasks[t].kind = "enable" => tasks[t].ret \in {"none", "true"}

\* one enablePlugin(p) wrote the flag and is awaiting the start hook, a second
\* enablePlugin(p) has resolved true meanwhile, and start was invoked once
EnableOverlapResolved ==
  \E t1, t2 \in CmdTasks :
    /\ t1 # t2
    /\ tasks[t1].kind = "enable" /\ tasks[t2].kind = "enable"
    /\ tasks[t1].p = tasks[t2].p
    /\ tasks[t1].wrote /\ tasks[t1].pc = "lc_start"
    /\ tasks[t2].pc = "done" /\ tasks[t2].ret = "true"
    /\ startCalls[tasks[t1].p] = 1

\* C4: when the start hook throws during startPlugin then, once the failure
\* is reported, the catalog state of the plugin is the state it had when
\* startPlugin was called, and the plugin owns exactly the registrations it
\* owned then.
StartFailureRestores ==
  [][\A t \in TaskIds :
       (tasks[t].pc = "lc_rolled_back" /\ tasks'[t].pc = "ret") =>
         /\ state'[tasks[t].p] = tasks[t].pre.state
         /\ hookRegs'[tasks[t].p] = tasks[t].pre.hooks]_vars

\* the command of task t is past its guards and has not completed
InBody(t) == tasks[t].kind \in {"enable", "disable"} /\ tasks[t].pc # "done"

\* C5: two commands on the same plugin never interleave: an enablePlugin and
\* a disablePlugin of one plugin are never both between their first write or
\* runtime step and their completion.
CommandsNeverInterleave ==
  \A t1, t2 \in CmdTasks :
    (t1 # t2 /\ tasks[t1].p = tasks[t2].p /\ InBody(t1) /\ InBody(t2)) =>
      tasks[t1].kind = tasks[t2].kind

\* C6: when an enablePlugin that wrote enabled=true returns false after its
\* runtime half failed (startPlugin threw, or returned false), the flag has
\* been written back to false; and enablePlugin writes the flag back in no
\* other case.
EnableRevertsExactly ==
  [][\A t \in CmdTasks :
       /\ (/\ tasks[t].kind = "enable" /\ tasks[t].wrote
           /\ tasks[t].pc \in {"ret", "en_revert"}
           /\ tasks'[t].pc = "done" /\ tasks'[t].ret = "false")
          => ~isPluginEnabled(mem', tasks[t].p)
       /\ (tasks[t].kind = "enable" /\ tasks[t].pc # "en_revert"
           /\ tasks'[t].pc = "en_revert")
          => tasks[t].ret \in {"throw", "false"}]_vars

\* no change is pending and no reconcile is in progress on the live framework
Quiescent ==
  /\ Running
  /\ debounce = NoChange
  /\ \A t \in RecTasks : tasks[t].kind = "idle"

\* C7: once the external changes have stopped and the debounced notifications
\* have been processed, every loaded plugin whose preconditions hold is ACTIVE
\* if and only if the persisted document has it enabled.
ReconcileConverges ==
  Quiescent =>
    \A p \in instances :
      /\ (storage[p] /\ checkDependencies(state, p) /\ ~checkConflicts(state, p))
         => state[p] = "ACTIVE"
      /\ (~storage[p] /\ \A d \in getDependents(p) : state[d] # "ACTIVE")
         => state[p] # "ACTIVE"

\* C8: the body of init() is entered at most once, whatever the sequence of
\* init() and destroy() calls.
InitBodyAtMostOnce == initRuns <= 1

\* C9: once destroyed is set, no plugin enters STARTING or ACTIVE and no start
\* hook is invoked.
NoStartAfterDestroy ==
  [][destroyed =>
       \A p \in Plugins :
         /\ state'[p] \in {"STARTING", "ACTIVE"} => state'[p] = state[p]
         /\ startCalls'[p] = startCalls[p]]_vars

\* destroy() completes in this step
DestroyCompletes ==
  /\ destroyed'
  /\ tasks'[DestroyTask].kind = "idle"
  /\ tasks[DestroyTask].kind = "destroy" \/ ~destroyed

\* the plugins that were ACTIVE when the destroy() that completes began
ActiveAtDestroy ==
  IF tasks[DestroyTask].kind = "destroy"
  THEN {tasks[DestroyTask].list[k] : k \in 1..Len(tasks[DestroyTask].list)}
  ELSE {p \in Plugins : state[p] = "ACTIVE"}

\* C10: when destroy() completes, the stop hook of every plugin that was
\* ACTIVE when it began has been invoked, and no plugin is ACTIVE.
DestroyStopsEveryActive ==
  [][DestroyCompletes =>
       /\ ActiveAtDestroy \subseteq tasks[DestroyTask].stopped
       /\ \A p \in Plugins : state'[p] # "ACTIVE"]_vars

\* the ids reachable from those of S along dependencies inside R, S included
RECURSIVE closure(_, _, _, _)
closure(S, deps, R, n) ==
  IF n = 0 THEN S
  ELSE closure(S \cup UNION {deps[y] \cap R : y \in S}, deps, R, n - 1)

\* the ids of the list that x depends on, directly or not
transitiveDeps(x) ==
  closure(allDeps[x] \cap Range(pluginIds), allDeps, Range(pluginIds), Cardinality(Ids))

OnCycle(x) == x \in transitiveDeps(x)

Acyclic == \A x \in Range(pluginIds) : ~OnCycle(x)

\* the ids on a cycle and the ids that depend on them
Remainder ==
  {x \in Range(pluginIds) : OnCycle(x) \/ \E y \in transitiveDeps(x) : OnCycle(y)}

\* C11: for every list of ids whose dependency graph is acyclic,
\* resolveLoadOrder returns an order that holds every id of the list exactly
\* once and has each dependency before its dependents; for a depending on b,
\* resolveLoadOrder([a, b]) is [b, a].
LoadOrderOfAcyclic ==
  (loadOrder.done /\ Acyclic) =>
    /\ loadOrder.ok
    /\ \A x \in Range(pluginIds) :
         Cardinality({k \in 1..Len(loadOrder.order) : loadOrder.order[k] = x}) = 1
    /\ Range(loadOrder.order) = Range(pluginIds)
    /\ \A i, j \in 1..Len(loadOrder.order) :
         loadOrder.order[i] \in allDeps[loadOrder.order[j]] => i < j
    /\ (pluginIds = <<"a", "b">> /\ "b" \in allDeps["a"]) => loadOrder.order = <<"b", "a">>

\* C12: for every list of ids whose dependency graph has a cycle,
\* resolveLoadOrder fails, returns no order, and names exactly the ids on a
\* cycle and the ids that depend on them.
CycleReportedExactly ==
  (loadOrder.done /\ ~Acyclic) =>
    /\ ~loadOrder.ok
    /\ loadOrder.order = << >>
    /\ Range(loadOrder.missing) = Remainder

\* a failed call that names an id that is on no cycle but depends on one,
\* for a list that also holds an id that resolves
CycleReportedWithDependent ==
  /\ loadOrder.done /\ ~loadOrder.ok
  /\ \E x \in Range(loadOrder.missing) : ~OnCycle(x)
  /\ Range(pluginIds) \ Range(loadOrder.missing) # {}

\* C13: stopPlugin of an ACTIVE plugin without ACTIVE dependents always
\* completes the teardown: when it returns, the plugin owns no registration
\* and its state is STOPPED, also when the stop hook threw, and then the
\* error is recorded as well.
StopAlwaysCompletes ==
  [][\A t \in TaskIds :
       (tasks[t].pc = "lc_stop" /\ tasks'[t].pc = "ret") =>
         /\ hookRegs'[tasks[t].p] = {}
         /\ state'[tasks[t].p] = "STOPPED"
         /\ tasks'[t].ret = "false" => tasks[t].p \in errors']_vars

\* C14: when unregisterPlugin(owner) returns, no handler entry tagged with
\* that owner is left in the array of any hook, however many registrations
\* the owner held and on however many hooks.
UnregisterPluginRemovesAll ==
  [][\A o \in Owners :
       UnregisterPlugin(o) =>
         \A h \in HookNames : \A i \in 1..Len(hooks'[h]) : hooks'[h][i].plugin # o]_vars

\* the entry of the emission with this id
entryOf(e, id) == CHOOSE x \in Range(flatten(e.groups)) : x.id = id

\* the hook's array holds an entry with this id
Registered(hs, hookName, id) == \E i \in 1..Len(hs[hookName]) : hs[hookName][i].id = id

\* C15: in an emission with parallel:false the handlers run in ascending
\* priority and, within a priority, in registration order; the first receives
\* the initial data and each later one receives as context.data the value the
\* handler that ran immediately before it returned.
SequentialChain ==
  ~em.parallel =>
    /\ \A i, j \in 1..Len(em.began) :
         i < j =>
           LET x == entryOf(em, em.began[i].id)
               y == entryOf(em, em.began[j].id)
           IN x.priority < y.priority \/ (x.priority = y.priority /\ x.id < y.id)
    /\ em.began # << >> => em.began[1].input = InitialData
    /\ \A j \in 2..Len(em.began) :
         outcomeOf(em, em.began[j - 1].id) = "value" =>
           em.began[j].input = em.began[j - 1].id

\* the handlers that begin in a step of the emission
newlyBegun ==
  IF em' = em THEN {}
  ELSE {em'.began[i].id : i \in (IF em.pc = "idle" THEN 1 ELSE Len(em.began) + 1)..Len(em'.began)}

\* C16: in every emission, parallel or sequential, when a handler begins,
\* every handler the hook holds in a band of a lower priority number has
\* settled.
BandsInOrder ==
  [][\A id \in newlyBegun :
       \A y \in Range(flatten(em'.groups)) :
         y.priority < entryOf(em', id).priority => outcomeOf(em', y.id) # "none"]_vars

\* a parallel emission in which a band of two handlers settled and the
\* handler of the next band began
SecondBandBegun ==
  /\ em.parallel
  /\ Len(em.began) = 3
  /\ entryOf(em, em.began[1].id).priority = 10
  /\ entryOf(em, em.began[2].id).priority = 10
  /\ entryOf(em, em.began[3].id).priority = 20

\* C17: a once handler that an emission invoked stays in the hook's array
\* while the emission goes on, and is no longer in it when the emission has
\* completed, in parallel and in sequential mode, whether it returned or threw.
OnceRemovedAfterEmission ==
  [][em' # em =>
       \A i \in 1..Len(em'.began) :
         LET x == entryOf(em', em'.began[i].id)
         IN x.once =>
              IF em'.pc = "run"
              THEN Registered(hooks, em'.hookName, x.id) => Registered(hooks', em'.hookName, x.id)
              ELSE ~Registered(hooks', em'.hookName, x.id)]_vars

\* the promise of a request is settled
Settled(ps, id) == ps[id].outcome \in {"resolved", "rejected"}

\* C18: when the peer has a handler for the action and the handler's reply
\* has come back to the sender, the request is resolved with the value the
\* handler resolved, or rejected with the message of the error the handler
\* rejected with, unless its timer fired first.
ReplySettlesRequest ==
  \A id \in 1..MaxReqs :
    (channel[id].st = "closed" /\ channel[id].reply.requestId = id) =>
      \/ /\ channel[id].reply.success
         /\ promises[id].outcome = "resolved"
         /\ promises[id].value = HandlerValue
      \/ /\ ~channel[id].reply.success
         /\ promises[id].outcome = "rejected"
         /\ promises[id].value = HandlerError
      \/ /\ promises[id].outcome = "rejected"
         /\ promises[id].value = "Request timeout"

\* C19: of the RESPONSE and the timeout of a request, the one that comes
\* first settles the promise and removes the pending record; after that the
\* promise is never settled again, by neither, and neither a pending record
\* nor an armed timer of the request is left.
FirstOutcomeWins ==
  [][\A id \in 1..MaxReqs :
       /\ Settled(promises, id) => promises'[id] = promises[id]
       /\ Settled(promises', id) => id \notin pendingRequests' /\ id \notin timers'
       /\ \A success \in BOOLEAN :
            (promises[id].outcome = "pending" /\ ResponseArrives(id, success)) =>
              /\ promises'[id].outcome = IF success THEN "resolved" ELSE "rejected"
              /\ promises'[id].value = IF success THEN HandlerValue ELSE HandlerError
       /\ (promises[id].outcome = "pending" /\ Timeout(id)) =>
            /\ promises'[id].outcome = "rejected"
            /\ promises'[id].value = "Request timeout"]_vars

\* one request timed out and its RESPONSE came later, another got its
\* RESPONSE while its timer was armed
BothOrdersSeen ==
  /\ \E id \in dropped : promises[id].value = "Request timeout"
  /\ \E id \in 1..MaxReqs : promises[id].outcome = "resolved"

\* the peer got the request and had no handler for its action
NoHandler(id) == channel[id].reply.payload = "No handler"

\* C20: a request for whose action the peer has no handler stays pending,
\* its timer armed, until the timer fires; then, and by nothing else, it is
\* rejected with the timeout error and its pending record is removed.
NoHandlerTimesOut ==
  [][\A id \in 1..MaxReqs :
       NoHandler(id) =>
         /\ promises[id].outcome = "pending" => id \in timers /\ id \in pendingRequests
         /\ (promises[id].outcome = "pending" /\ promises'[id].outcome # "pending") =>
              /\ id \notin timers'
              /\ promises'[id].outcome = "rejected"
              /\ promises'[id].value = "Request timeout"
              /\ promises'[id].calls = 1
         /\ promises'[id].outcome # "pending" => id \notin pendingRequests']_vars

\* a request the peer had no handler for was rejected by its timer
NoHandlerTimedOut ==
  \E id \in 1..MaxReqs :
    /\ NoHandler(id)
    /\ channel[id].st = "closed"
    /\ promises[id].outcome = "rejected"
    /\ promises[id].value = "Request timeout"
    /\ id \notin pendingRequests

\* C24: when the init hook throws, initPlugin records the error and leaves the
\* state at LOADED, so that the startPlugin that follows is legal: after the
\* step the plugin is LOADED still, or STARTING already.
InitFailureKeepsLoaded ==
  [][\A t \in TaskIds :
       LcInitDone(t, "throw", FALSE) =>
         /\ tasks[t].p \in errors'
         /\ state'[tasks[t].p] \in {"LOADED", "STARTING"}]_vars

\* C26: when disablePlugin wrote enabled=false and the runtime stop then
\* failed, the enabled flag is true again when disablePlugin returns false.
DisableRevertsOnFailure ==
  [][\A t \in CmdTasks :
       (/\ tasks[t].kind = "disable" /\ tasks[t].pc = "ret" /\ tasks[t].wrote
        /\ tasks'[t].pc = "done" /\ tasks'[t].ret = "false") =>
         isPluginEnabled(mem', tasks[t].p)]_vars

\* C27: a call of enablePlugin or disablePlugin that found the token of its
\* plugin and direction in flight got the result the command holding the
\* token ends with.
DuplicateJoinsOutcome ==
  [][\A t \in CmdTasks :
       (tasks[t].pc \notin {"idle", "done"} /\ tasks'[t].pc = "done") =>
         tasks[t].told \subseteq {tasks'[t].ret}]_vars

\* C28: the notification of the write an enablePlugin made is processed while
\* the token of that command is in flight, so with this context's own
\* commands as the only writers _handleStorageChange never invokes
\* _reconcileEnable.
OwnEnableEchoIgnored ==
  [][\A t \in RecTasks :
       ~(/\ tasks'[t].kind = "reconcile"
         /\ tasks'[t].i # tasks[t].i
         /\ tasks'[t].chg.new[tasks'[t].p])]_vars

\* C21: destroy() rejects every pending request with the destroyed error,
\* cancels its timer and leaves the pending table and the handler table empty;
\* afterwards nothing settles a request again, request() creates no record, and
\* another destroy() changes nothing.
DestroyIsTerminal ==
  [][/\ \A c \in Contexts :
          (Destroy(c) /\ c \notin ipcDestroyed) =>
            IF c = "sender"
            THEN /\ \A id \in pendingRequests :
                      /\ promises'[id].outcome = "rejected"
                      /\ promises'[id].value = "IPC destroyed"
                      /\ id \notin timers'
                 /\ pendingRequests' = {}
            ELSE ipcHandlers' = {}
     /\ "sender" \in ipcDestroyed =>
          /\ pendingRequests' = {} /\ timers' = {}
          /\ requestId' = requestId
          /\ \A id \in 1..MaxReqs :
               /\ promises'[id].outcome = promises[id].outcome
               /\ promises'[id].value = promises[id].value
     /\ \A c \in Contexts :
          (Destroy(c) /\ c \in ipcDestroyed) => UNCHANGED vars]_vars

\* a request was rejected by destroy(), and a response for it came afterwards
DestroyedThenResponse ==
  /\ "sender" \in ipcDestroyed
  /\ \E id \in dropped : promises[id].value = "IPC destroyed"

\* C29: a destroyed broker hands no message to the transport.
NoSendAfterDestroy == \A m \in sent : ~m.late

\* the handlers of band g of emission e that began
begunOf(e, g) == {i \in 1..Len(e.groups[g]) : \E n \in 1..Len(e.began) :
                                                 e.began[n].id = e.groups[g][i].id}

\* C30: an emission that was cancelled ran every handler of the band it had
\* started and no handler of a later band; an emission that was not, among
\* them every emission that is not cancelable, ran every handler.
CancelBetweenBands ==
  [][(em.pc = "run" /\ em'.pc = "idle") =>
       LET e == em'
       IN /\ ~e.cancelable => ~e.cancelled
          /\ \A g \in 1..Len(e.groups) :
               begunOf(e, g) = IF e.cancelled /\ g > e.g THEN {}
                               ELSE 1..Len(e.groups[g])]_vars

\* C25: a call of destroyPlugin on a plugin that has an instance ends with
\* the plugin in DESTROYED, whatever the destroy hook did.
DestroyPluginEndsDestroyed ==
  [][\A t \in TaskIds :
       (/\ tasks'[t].kind = "destroyPlugin"
        /\ tasks[t].pc # "done" /\ tasks'[t].pc = "done"
        /\ tasks'[t].p \in instances) =>
         state'[tasks'[t].p] = "DESTROYED"]_vars

\* definition d is violated by the value: its type, its numeric bounds, its
\* enum or its validator
Violates(d, value) ==
  \/ d.type \in {"number", "string", "boolean"} /\ value.t # d.type
  \/ value.t = "number" /\ d.min # NoBound /\ value.v < d.min
  \/ value.t = "number" /\ d.max # NoBound /\ value.v > d.max
  \/ d.enum # NoEnum /\ value \notin d.enum
  \/ d.validator # NoValidator /\ value \notin d.validator

RegisterSchemaAdditive ==
  [][\A schema \in Schemas :
       RegisterSchema(schema) =>
         IF ~cfg.entry.present
         THEN cfg'.entry = [present |-> TRUE, enabled |-> FALSE,
                            settings |-> [k \in Keys |-> schema[k].default]]
         ELSE /\ cfg'.entry.present
              /\ cfg'.entry.enabled = cfg.entry.enabled
              /\ \A k \in Keys :
                   cfg'.entry.settings[k] =
                     IF cfg.entry.settings[k] # Undefined
                     THEN cfg.entry.settings[k] ELSE schema[k].default]_vars

\* a schema was registered for an enabled plugin that kept a stored value
\* other than the default and got the default of another key
MergedKeepingStored ==
  /\ cfg.last = "merged"
  /\ cfg.entry.enabled
  /\ \E k \in Keys :
       /\ cfg.schema[k].default # Undefined
       /\ cfg.entry.settings[k] \notin {Undefined, cfg.schema[k].default}
  /\ \E k \in Keys :
       /\ cfg.schema[k].default # Undefined
       /\ cfg.entry.settings[k] = cfg.schema[k].default

\* C31: when the last handler of a parallel band settles, the data carried
\* forward is the value of the handler of the band that settled last in time
\* among those that returned a value.
LastSettledValueCarried ==
  [][(/\ em.pc = "run" /\ em.parallel
      /\ Cardinality(em.running) = 1
      /\ em'.res # em.res) =>
       LET r == CHOOSE x \in em'.res : x \notin em.res
           last == IF r.out = "value" THEN r.id ELSE em.lastValue
       IN last # 0 => em'.data = last]_vars

\* C32: set issues no storage write; at most one batch timer is armed; when
\* it fires, one write carries the document of that moment and no timer is
\* left, so a burst of sets is followed by exactly one write.
PersistDebounced ==
  [][/\ cfg.armed <= 1 /\ cfg'.armed <= 1
     /\ (\E key \in Keys \cup {"enabled"}, value \in Values \cup {False},
            skip \in BOOLEAN : Set(key, value, skip)) =>
          /\ cfg'.writes = cfg.writes /\ cfg'.stored = cfg.stored
          /\ cfg'.armed = 1
     /\ BatchFire =>
          /\ cfg'.writes = cfg.writes + 1
          /\ cfg'.stored = cfg.entry
          /\ cfg'.armed = 0]_vars

\* a burst of two sets of different keys was written at once
BurstWrittenOnce ==
  /\ cfg.sets = 2 /\ cfg.emitted = 4
  /\ cfg.writes = 1 /\ cfg.armed = 0
  /\ cfg.stored = cfg.entry
  /\ \A k \in Keys : cfg.entry.settings[k] # Undefined

\* C33: every required dependency of an ACTIVE plugin is ACTIVE.
DependenciesOfActiveAreActive ==
  \A p \in Plugins :
    state[p] = "ACTIVE" => \A d \in Dependencies[p] : state[d] = "ACTIVE"

\* C34: no two ACTIVE plugins are in conflict, whichever of them declares it.
NoActiveConflict ==
  \A p, q \in Plugins :
    (state[p] = "ACTIVE" /\ state[q] = "ACTIVE") => q \notin Conflicts[p]

\* C35: when the startup sequence has completed over two plugins that are both
\* enabled in the stored settings, one requiring the other and none declaring
\* a conflict, both are ACTIVE.
DependentPairStarted ==
  (/\ Running
   /\ \A p \in Plugins : storage[p]
   /\ \E p \in Plugins : Dependencies[p] # {}
   /\ \A p \in Plugins : Conflicts[p] = {}) =>
    \A p \in Plugins : state[p] = "ACTIVE"

\* the external changes seen so far have been reconciled
Reconciled ==
  /\ Running
  /\ debounce = NoChange
  /\ \A t \in RecTasks : tasks[t].pc \in {"idle", "done"}

\* C36: once the external changes are reconciled, a persist of this context,
\* which wrote no enabled flag itself, leaves the enabled flags in the
\* storage as the other context wrote them.
PersistKeepsExternalFlags ==
  [][(PersistFire /\ Reconciled) => storage' = storage]_vars

\* C37: a write a plugin makes to one of its declared settings through its
\* settings API does not change whether the plugin is enabled.
OwnSettingKeepsEnabled ==
  [][\A p \in Plugins, key \in OwnKeys, value \in BOOLEAN :
       SettingsSet(p, key, value) =>
         isPluginEnabled(mem', p) = isPluginEnabled(mem, p)]_vars

\* C38: a plugin in ERROR stays in ERROR whatever commands are issued, and an
\* enablePlugin called on a plugin in ERROR that returns at once returns
\* false with the plugin's enabled flag false.
ErrorAbsorbing ==
  [][\A p \in Plugins :
       state[p] = "ERROR" =>
         /\ state'[p] = "ERROR"
         /\ EnableCall(p) =>
              \A t \in CmdTasks :
                (tasks[t].pc = "idle" /\ tasks'[t].pc = "done") =>
                  tasks'[t].ret = "false" /\ ~isPluginEnabled(mem', p)]_vars

\* C39: resolveLoadOrder fails only for a list whose dependency graph has a
\* cycle; a list that holds an id twice with acyclic dependencies is ordered.
FailsOnlyOnCycle ==
  (loadOrder.done /\ ~loadOrder.ok) => ~Acyclic

\* C40: a handler registered with once:true that an emission has invoked is
\* not invoked by the emission that follows it.
OnceInvokedAtMostOnce ==
  [][em.pc = "idle" =>
       \A id \in newlyBegun :
         entryOf(em', id).once =>
           \A i \in 1..Len(em.began) : em.began[i].id # id]_vars

====
